---- MODULE Spec2Model ----
(***************************************************************************)
(* Edge vs cloud IoT pipeline: the edge devices (EdgeComputingDevice,      *)
(* MQTTEdgeDevice) and the cloud aggregator (CloudServer).                 *)
(*                                                                         *)
(* Numbers.  The source computes on floats; here every measurement,       *)
(* threshold and health value is an integer count of thousandths of the    *)
(* source unit (550.0 F is 550000, 0.08 g is 80, health 30.0 is 30000).    *)
(* Comparisons and the percentage test of the rapid-change check are       *)
(* evaluated exactly on these integers.                                    *)
(*                                                                         *)
(* Dictionaries are functions: a reading is a record whose DOMAIN is the   *)
(* set of keys present, and `measurements` is the sequence of its          *)
(* (sensor, value) items in dict order.                                    *)
(***************************************************************************)
EXTENDS Integers, Sequences, FiniteSets, TLC

VARIABLES
    device,          \* class of the edge object the program built
    sensor_history,  \* edge: node_id -> channel -> deque of recent values
    metrics,         \* edge: performance counters
    anomaly_log,     \* edge: one entry per anomaly acted on
    cloud_out,       \* MQTT edge: messages published on iot/cloud/alerts
    actuator_out,    \* MQTT edge: commands published on iot/actuators/<n>/command
    result,          \* outcome of the last call on the edge object
    message_storage, \* CloudServer: received messages, in arrival order
    statistics,      \* CloudServer: counters
    pc,              \* per thread: position inside CloudServer.receive_message
    frame,           \* per thread: locals of the running receive_message call
    appended,        \* history: node_id -> channel -> every value ever appended
    before,          \* history: edge state right before the last call
    quiet,           \* history: node_id -> anomaly-free readings since its last SUMMARY
    steps,           \* history: number of calls made so far
    actuators,       \* actuator_id -> IoTActuator fields
    actuator_call,   \* history: the last call made on an actuator, and the actuators before it
    edge_metrics,    \* SystemSimulation: counters of the edge architecture run
    cloud_metrics,   \* SystemSimulation: counters of the cloud baseline run
    sim_status,      \* SystemSimulation: "running", or "raised" once an exception ended the run
    platform,        \* CloudPlatform: statistics, alerts, telemetry_data, device_status
    held,            \* the value the last read handed to its caller, and what it refers to
    sensor_nodes,    \* node_id -> IoTSensorNode fields
    delivered,       \* history: node_id -> what read_sensor_data returned, call by call
    decision,        \* outcome of the last fused (rules and classifier) decision
    mqtt,            \* MQTT component -> connected, subscriptions, state of its connect() call
    publisher,       \* the MQTTSensorNode: its stream, current_cycle and what it published
    inbox,           \* history: the messages CloudPlatform.on_message was called with
    last_callback    \* history: the last call or callback on an MQTT component, and the state before it

vars == <<device, sensor_history, metrics, anomaly_log, cloud_out, actuator_out,
          result, message_storage, statistics, pc, frame, appended, before,
          quiet, steps, actuators, actuator_call, edge_metrics, cloud_metrics,
          sim_status, platform, held, sensor_nodes, delivered, decision,
          mqtt, publisher, last_callback, inbox>>

edgeVars == <<sensor_history, metrics, anomaly_log, cloud_out, actuator_out,
              result, appended, before, quiet>>

cloudVars == <<message_storage, statistics>>

threadVars == <<pc, frame>>

actuatorVars == <<actuators, actuator_call>>

simVars == <<edge_metrics, cloud_metrics, sim_status>>

readVars == <<platform, held, inbox>>

nodeVars == <<sensor_nodes, delivered>>

fusionVars == <<decision>>

mqttVars == <<mqtt, publisher, last_callback>>

-----------------------------------------------------------------------------
(* Program constants *)

window_size == 10

thresholds ==
    [ temperature_1 |-> 550000,
      temperature_2 |-> 680000,
      pressure      |-> 16000,
      vibration     |-> 80,
      rpm           |-> 2450000,
      health        |-> 30000 ]

\* keys of the per-node history dict
HistoryKeys ==
    {"temperature_1", "temperature_2", "pressure", "vibration", "rpm", "health"}

\* sensor names s for which Python's  'temperature' in s  is true
TemperatureSensors == {"temperature_1", "temperature_2"}

\* a JSON value that is not a number (a string): every ordering or arithmetic
\* use of it raises TypeError
NonNumeric == -999999999

\* Python's None: what dict.get(key) returns for a missing key
None == -1

IsNumber(v) == v # NonNumeric

EdgeClass == "EdgeComputingDevice"

MqttClass == "MQTTEdgeDevice"

-----------------------------------------------------------------------------
(* Sequence helpers *)

Min(a, b) == IF a <= b THEN a ELSE b

Abs(x) == IF x < 0 THEN 0 - x ELSE x

LastN(s, k) == SubSeq(s, Len(s) - k + 1, Len(s))

RECURSIVE SumSeq(_)
SumSeq(s) == IF s = <<>> THEN 0 ELSE Head(s) + SumSeq(Tail(s))

HasKeys(d, ks) == ks \subseteq DOMAIN d

Max(a, b) == IF a >= b THEN a ELSE b

-----------------------------------------------------------------------------
(* collections.deque(maxlen=window_size) *)

DequeAppend_NoEvict(q, v) == Append(q, v)

\* deque.append on a bounded deque: when full, the oldest item is discarded
DequeAppend(q, v) ==
    LET a == Append(q, v)
    IN  IF Len(a) > window_size THEN Tail(a) ELSE a

RECURSIVE PushAll(_, _)
PushAll(q, vs) ==
    IF vs = <<>> THEN q ELSE PushAll(DequeAppend(q, Head(vs)), Tail(vs))

EmptyHistory == [c \in HistoryKeys |-> <<>>]

initialize_sensor_history(h, node_id) ==
    IF node_id \in DOMAIN h
    THEN h
    ELSE [n \in DOMAIN h \cup {node_id} |->
            IF n = node_id THEN EmptyHistory ELSE h[n]]

\* the values of `items` (a sequence of measurement items) stored under `sensor`
ValuesFor(items, sensor) ==
    LET hit(m) == m.sensor = sensor
        sel == SelectSeq(items, hit)
    IN  [i \in 1..Len(sel) |-> sel[i].value]

PushHistory_EveryNode(h, node_id, adds) ==
    [n \in DOMAIN h |-> [c \in HistoryKeys |-> PushAll(h[n][c], adds[c])]]

\* history `h` after the per-channel value lists `adds` were appended for node_id
PushHistory(h, node_id, adds) ==
    [h EXCEPT ![node_id] = [c \in HistoryKeys |-> PushAll(@[c], adds[c])]]

\* the unbounded record of appends, extended the same way
PushAppended(a, node_id, adds) ==
    LET a1 == initialize_sensor_history(a, node_id)
    IN  [a1 EXCEPT ![node_id] = [c \in HistoryKeys |-> @[c] \o adds[c]]]

-----------------------------------------------------------------------------
(* detect_anomalies: the three checks.  An anomaly keeps the fields later    *)
(* code reads (type, sensor, value, threshold, severity); `message`,         *)
(* `previous_avg` and `change_pct` are text and floats derived from them.    *)

ThresholdAnomaly(m) ==
    [ type      |-> "threshold_exceeded",
      sensor    |-> m.sensor,
      value     |-> m.value,
      threshold |-> thresholds[m.sensor],
      severity  |-> "WARNING" ]

ThresholdAnomalies_StopAtFirst(measurements) ==
    LET over(m) == /\ m.sensor \in DOMAIN thresholds
                   /\ m.value > thresholds[m.sensor]
        hits == SelectSeq(measurements, over)
    IN  [i \in 1..Min(1, Len(hits)) |-> ThresholdAnomaly(hits[i])]

ThresholdAnomalies_AtThreshold(measurements) ==
    LET over(m) == /\ m.sensor \in DOMAIN thresholds
                   /\ m.value >= thresholds[m.sensor]
        hits == SelectSeq(measurements, over)
    IN  [i \in 1..Len(hits) |-> ThresholdAnomaly(hits[i])]

\* 1. threshold check, one pass over measurements.items()
ThresholdAnomalies(measurements) ==
    LET over(m) == /\ m.sensor \in DOMAIN thresholds
                   /\ m.value > thresholds[m.sensor]
        hits == SelectSeq(measurements, over)
    IN  [i \in 1..Len(hits) |-> ThresholdAnomaly(hits[i])]

HealthAnomalies_CriticalAtTwenty(health) ==
    IF health < thresholds.health
    THEN << [ type      |-> "low_health",
              sensor    |-> "health",
              value     |-> health,
              threshold |-> thresholds.health,
              severity  |-> IF health <= 20000 THEN "CRITICAL" ELSE "WARNING" ] >>
    ELSE << >>

\* health check: low is bad; CRITICAL below 20, WARNING otherwise
HealthAnomalies(health) ==
    IF health < thresholds.health
    THEN << [ type      |-> "low_health",
              sensor    |-> "health",
              value     |-> health,
              threshold |-> thresholds.health,
              severity  |-> IF health < 20000 THEN "CRITICAL" ELSE "WARNING" ] >>
    ELSE << >>

RapidChange_NoZeroGuard(hist, m) ==
    /\ m.sensor \in DOMAIN hist
    /\ Len(hist[m.sensor]) >= 5
    /\ LET s == SumSeq(LastN(hist[m.sensor], 5))
       IN  /\ s >= 0
           /\ Abs(5 * m.value - s) * 20 > 3 * s

RapidChange_AtFifteen(hist, m) ==
    /\ m.sensor \in DOMAIN hist
    /\ Len(hist[m.sensor]) >= 5
    /\ LET s == SumSeq(LastN(hist[m.sensor], 5))
       IN  /\ s > 0
           /\ Abs(5 * m.value - s) * 20 >= 3 * s

\* the rapid-change test of one measurement item against the node's history
\* `hist` (which already holds the current value).  With s the sum of the 5
\* most recent values, avg = s/5, and
\*     avg > 0  /\  abs((value - avg) / avg) * 100 > 15
\* is  s > 0  /\  |5*value - s| * 20 > 3 * s.
RapidChange(hist, m) ==
    /\ m.sensor \in DOMAIN hist
    /\ Len(hist[m.sensor]) >= 5
    /\ LET s == SumSeq(LastN(hist[m.sensor], 5))
       IN  /\ s > 0
           /\ Abs(5 * m.value - s) * 20 > 3 * s

RapidAnomaly(m) ==
    [ type     |-> "rapid_change",
      sensor   |-> m.sensor,
      value    |-> m.value,
      severity |-> "WARNING" ]

\* 2. rapid-change check, a second pass over measurements.items()
RapidAnomalies(hist, measurements) ==
    LET rapid(m) == RapidChange(hist, m)
        hits == SelectSeq(measurements, rapid)
    IN  [i \in 1..Len(hits) |-> RapidAnomaly(hits[i])]

\* detect_anomalies raises TypeError when it orders or averages a non-number:
\* value > threshold, health < threshold, statistics.mean(recent_values)
DetectRaises(hist, measurements, health) ==
    \/ \E i \in 1..Len(measurements) :
          /\ measurements[i].sensor \in DOMAIN thresholds
          /\ ~IsNumber(measurements[i].value)
    \/ ~IsNumber(health)
    \/ \E i \in 1..Len(measurements) :
          LET s == measurements[i].sensor
          IN  /\ s \in DOMAIN hist
              /\ Len(hist[s]) >= 5
              /\ \E j \in 1..5 : ~IsNumber(LastN(hist[s], 5)[j])

detect_anomalies_OnePerChannel(hist, measurements, health) ==
    LET calm(m) == ThresholdAnomalies(<<m>>) = << >>
    IN  ThresholdAnomalies(measurements)
            \o HealthAnomalies(health)
            \o RapidAnomalies(hist, SelectSeq(measurements, calm))

\* the list detect_anomalies returns when it does not raise
detect_anomalies(hist, measurements, health) ==
    ThresholdAnomalies(measurements)
        \o HealthAnomalies(health)
        \o RapidAnomalies(hist, measurements)

IsCritical(a) == a.severity = "CRITICAL"

-----------------------------------------------------------------------------
(* EdgeComputingDevice *)

EdgeMetrics0 ==
    [ total_processed     |-> 0,
      anomalies_detected  |-> 0,
      cloud_messages_sent |-> 0,
      actuator_commands   |-> 0,
      processing_times    |-> 0 ]   \* number of entries of the deque(maxlen=1000)

NoResult ==
    [ status             |-> "none",
      error              |-> "",
      reading            |-> << >>,
      anomalies          |-> << >>,
      should_alert_cloud |-> FALSE ]

Raised(err, r) ==
    [ status             |-> "raised",
      error              |-> err,
      reading            |-> r,
      anomalies          |-> << >>,
      should_alert_cloud |-> FALSE ]

Returned(r, anomalies, should) ==
    [ status             |-> "returned",
      error              |-> "",
      reading            |-> r,
      anomalies          |-> anomalies,
      should_alert_cloud |-> should ]

\* index of the first measurement item whose key has no history deque, or
\* Len + 1 when every key has one:  self.sensor_history[node_id][key]  raises
\* KeyError there, after the items before it were appended
FirstUnknown(measurements) ==
    LET bad == {i \in 1..Len(measurements) : measurements[i].sensor \notin HistoryKeys}
    IN  IF bad = {} THEN Len(measurements) + 1
        ELSE CHOOSE i \in bad : \A j \in bad : i <= j

\* the values process_sensor_data appends, per channel, in order: the
\* measurement items up to the first unknown key, then health
EdgeAppends(r) ==
    LET upto == FirstUnknown(r.measurements) - 1
        done == SubSeq(r.measurements, 1, upto)
    IN  [c \in HistoryKeys |->
            ValuesFor(done, c)
                \o (IF c = "health" /\ upto = Len(r.measurements)
                    THEN <<r.health>> ELSE << >>)]

ShouldAlertCloud_CriticalOnly(anomalies, r) ==
    \/ \E i \in 1..Len(anomalies) : anomalies[i].severity = "CRITICAL"
    \/ r.cycle % 10 = 0

ShouldAlertCloud_NoHeartbeat(anomalies, r) == Len(anomalies) > 0

\* should_alert_cloud; `or` evaluates sensor_reading['cycle'] only when the
\* anomaly list is empty
ShouldAlertCloud(anomalies, r) ==
    Len(anomalies) > 0 \/ r.cycle % 10 = 0

\* control_actuators: one command counted and one log entry per anomaly
EdgeLogEntries(node_id, anomalies) ==
    [i \in 1..Len(anomalies) |-> [node_id |-> node_id, anomaly |-> anomalies[i]]]

EdgeProcess_CounterHeartbeat(h, m, log, r) ==
    IF ~HasKeys(r, {"node_id", "measurements", "health"})
    THEN [sensor_history |-> h, metrics |-> m, anomaly_log |-> log,
          result |-> Raised("KeyError", r)]
    ELSE
    LET h1 == PushHistory(initialize_sensor_history(h, r.node_id),
                          r.node_id, EdgeAppends(r))
    IN
    IF FirstUnknown(r.measurements) <= Len(r.measurements)
    THEN [sensor_history |-> h1, metrics |-> m, anomaly_log |-> log,
          result |-> Raised("KeyError", r)]
    ELSE IF DetectRaises(h1[r.node_id], r.measurements, r.health)
    THEN [sensor_history |-> h1, metrics |-> m, anomaly_log |-> log,
          result |-> Raised("TypeError", r)]
    ELSE
    LET anomalies == detect_anomalies(h1[r.node_id], r.measurements, r.health)
        m1 == [m EXCEPT !.processing_times = Min(@ + 1, 1000),
                        !.total_processed = @ + 1]
        should == Len(anomalies) > 0 \/ m1.total_processed % 10 = 0
        m2 == IF should THEN [m1 EXCEPT !.cloud_messages_sent = @ + 1] ELSE m1
        m3 == IF Len(anomalies) > 0
              THEN [m2 EXCEPT !.anomalies_detected = @ + Len(anomalies),
                              !.actuator_commands = @ + Len(anomalies)]
              ELSE m2
    IN  [sensor_history |-> h1,
         metrics        |-> m3,
         anomaly_log    |-> log \o EdgeLogEntries(r.node_id, anomalies),
         result         |-> Returned(r, anomalies, should)]

EdgeProcess_MessagePerAnomaly(h, m, log, r) ==
    IF ~HasKeys(r, {"node_id", "measurements", "health"})
    THEN [sensor_history |-> h, metrics |-> m, anomaly_log |-> log,
          result |-> Raised("KeyError", r)]
    ELSE
    LET h1 == PushHistory(initialize_sensor_history(h, r.node_id),
                          r.node_id, EdgeAppends(r))
    IN
    IF FirstUnknown(r.measurements) <= Len(r.measurements)
    THEN [sensor_history |-> h1, metrics |-> m, anomaly_log |-> log,
          result |-> Raised("KeyError", r)]
    ELSE IF DetectRaises(h1[r.node_id], r.measurements, r.health)
    THEN [sensor_history |-> h1, metrics |-> m, anomaly_log |-> log,
          result |-> Raised("TypeError", r)]
    ELSE
    LET anomalies == detect_anomalies(h1[r.node_id], r.measurements, r.health)
        m1 == [m EXCEPT !.processing_times = Min(@ + 1, 1000),
                        !.total_processed = @ + 1]
    IN
    IF Len(anomalies) = 0 /\ "cycle" \notin DOMAIN r
    THEN [sensor_history |-> h1, metrics |-> m1, anomaly_log |-> log,
          result |-> Raised("KeyError", r)]
    ELSE
    LET should == ShouldAlertCloud(anomalies, r)
        m2 == IF should
              THEN [m1 EXCEPT !.cloud_messages_sent = @ + Max(1, 2 * Len(anomalies))]
              ELSE m1
        m3 == IF Len(anomalies) > 0
              THEN [m2 EXCEPT !.anomalies_detected = @ + Len(anomalies),
                              !.actuator_commands = @ + Len(anomalies)]
              ELSE m2
    IN  [sensor_history |-> h1,
         metrics        |-> m3,
         anomaly_log    |-> log \o EdgeLogEntries(r.node_id, anomalies),
         result         |-> Returned(r, anomalies, should)]

\* process_sensor_data(sensor_reading) on the object state (h, m, log): the
\* state it leaves and what the call returns or raises
EdgeProcess(h, m, log, r) ==
    IF ~HasKeys(r, {"node_id", "measurements", "health"})
    THEN [sensor_history |-> h, metrics |-> m, anomaly_log |-> log,
          result |-> Raised("KeyError", r)]
    ELSE
    LET h1 == PushHistory(initialize_sensor_history(h, r.node_id),
                          r.node_id, EdgeAppends(r))
    IN
    IF FirstUnknown(r.measurements) <= Len(r.measurements)
    THEN [sensor_history |-> h1, metrics |-> m, anomaly_log |-> log,
          result |-> Raised("KeyError", r)]
    ELSE IF DetectRaises(h1[r.node_id], r.measurements, r.health)
    THEN [sensor_history |-> h1, metrics |-> m, anomaly_log |-> log,
          result |-> Raised("TypeError", r)]
    ELSE
    LET anomalies == detect_anomalies(h1[r.node_id], r.measurements, r.health)
        m1 == [m EXCEPT !.processing_times = Min(@ + 1, 1000),
                        !.total_processed = @ + 1]
    IN
    IF Len(anomalies) = 0 /\ "cycle" \notin DOMAIN r
    THEN [sensor_history |-> h1, metrics |-> m1, anomaly_log |-> log,
          result |-> Raised("KeyError", r)]
    ELSE
    LET should == ShouldAlertCloud(anomalies, r)
        m2 == IF should THEN [m1 EXCEPT !.cloud_messages_sent = @ + 1] ELSE m1
        m3 == IF Len(anomalies) > 0
              THEN [m2 EXCEPT !.anomalies_detected = @ + Len(anomalies),
                              !.actuator_commands = @ + Len(anomalies)]
              ELSE m2
    IN  [sensor_history |-> h1,
         metrics        |-> m3,
         anomaly_log    |-> log \o EdgeLogEntries(r.node_id, anomalies),
         result         |-> Returned(r, anomalies, should)]

\* the call  edge_device.process_sensor_data(r)
process_sensor_data(r) ==
    /\ device = EdgeClass
    /\ LET out == EdgeProcess(sensor_history, metrics, anomaly_log, r)
       IN  /\ sensor_history' = out.sensor_history
           /\ metrics' = out.metrics
           /\ anomaly_log' = out.anomaly_log
           /\ result' = out.result
    /\ before' = [sensor_history |-> sensor_history, metrics |-> metrics,
                  anomaly_log |-> anomaly_log, actuator_out |-> actuator_out]
    /\ appended' = IF HasKeys(r, {"node_id", "measurements", "health"})
                   THEN PushAppended(appended, r.node_id, EdgeAppends(r))
                   ELSE appended
    /\ steps' = steps + 1
    /\ UNCHANGED <<device, readVars, nodeVars, fusionVars, mqttVars, actuatorVars, simVars, cloud_out, actuator_out, quiet, cloudVars, threadVars>>

-----------------------------------------------------------------------------
(* MQTTEdgeDevice *)

MqttMetrics0 ==
    [ total_received      |-> 0,
      anomalies_detected  |-> 0,
      cloud_messages_sent |-> 0,
      local_decisions     |-> 0,
      processing_times    |-> 0 ]

\* d.get(k, default)
Get(d, k, default) == IF k \in DOMAIN d THEN d[k] ELSE default

\* the values MQTTEdgeDevice.process_sensor_data appends, per channel: the
\* measurement items whose key has a deque, then health
MqttAppends(r) ==
    LET measurements == Get(r, "measurements", << >>)
    IN  [c \in HistoryKeys |->
            ValuesFor(measurements, c)
                \o (IF c = "health" THEN <<Get(r, "health", 100000)>> ELSE << >>)]

MqttAction_CriticalAsAlert(anomaly) ==
    IF anomaly.sensor \in TemperatureSensors THEN "ACTIVATE_COOLING" ELSE "ALERT"

\* control_actuators of the MQTT variant: the action chosen for one anomaly
MqttAction(anomaly) ==
    IF anomaly.severity = "CRITICAL" THEN "EMERGENCY_SHUTDOWN"
    ELSE IF anomaly.sensor \in TemperatureSensors THEN "ACTIVATE_COOLING"
    ELSE "ALERT"

MqttCommands(node_id, anomalies) ==
    [i \in 1..Len(anomalies) |->
        [ node_id  |-> node_id,
          action   |-> MqttAction(anomalies[i]),
          reason   |-> anomalies[i].sensor,
          severity |-> anomalies[i].severity ]]

MqttLogEntries(node_id, anomalies) ==
    [i \in 1..Len(anomalies) |->
        [ node_id |-> node_id,
          anomaly |-> anomalies[i],
          action  |-> MqttAction(anomalies[i]) ]]

\* send_to_cloud: the ANOMALY message
AnomalyMessage(r, anomalies) ==
    [ node_id    |-> Get(r, "node_id", None),
      cycle      |-> Get(r, "cycle", None),
      alert_type |-> "ANOMALY",
      anomalies  |-> anomalies,
      health     |-> Get(r, "health", None),
      critical   |-> \E i \in 1..Len(anomalies) : IsCritical(anomalies[i]) ]

\* send_summary_to_cloud: the SUMMARY message
SummaryMessage(r) ==
    [ node_id      |-> Get(r, "node_id", None),
      alert_type   |-> "SUMMARY",
      health       |-> Get(r, "health", None),
      measurements |-> Get(r, "measurements", None) ]

\* the periodic summary: every 10th message the device received, whatever
\* node sent it
SummaryDue(m, r) == m.total_received % 10 = 0

\* on_message(msg) on the object state: json.loads, then process_sensor_data,
\* inside  try ... except Exception  (the exception is printed and dropped)
MqttProcess(h, m, log, cout, aout, p) ==
    IF "invalid_json" \in DOMAIN p
    THEN [sensor_history |-> h, metrics |-> m, anomaly_log |-> log,
          cloud_out |-> cout, actuator_out |-> aout,
          result |-> Raised("JSONDecodeError", p)]
    ELSE
    LET node_id == Get(p, "node_id", None)
        measurements == Get(p, "measurements", << >>)
        health == Get(p, "health", 100000)
        m0 == [m EXCEPT !.total_received = @ + 1]
        h1 == PushHistory(initialize_sensor_history(h, node_id),
                          node_id, MqttAppends(p))
    IN
    IF DetectRaises(h1[node_id], measurements, health)
    THEN [sensor_history |-> h1, metrics |-> m0, anomaly_log |-> log,
          cloud_out |-> cout, actuator_out |-> aout,
          result |-> Raised("TypeError", p)]
    ELSE
    LET anomalies == detect_anomalies(h1[node_id], measurements, health)
        m1 == [m0 EXCEPT !.processing_times = Min(@ + 1, 1000)]
    IN
    IF Len(anomalies) > 0
    THEN [sensor_history |-> h1,
          metrics        |-> [m1 EXCEPT !.anomalies_detected = @ + Len(anomalies),
                                        !.local_decisions = @ + 1,
                                        !.cloud_messages_sent = @ + 1],
          anomaly_log    |-> log \o MqttLogEntries(node_id, anomalies),
          cloud_out      |-> Append(cout, AnomalyMessage(p, anomalies)),
          actuator_out   |-> aout \o MqttCommands(node_id, anomalies),
          result         |-> Returned(p, anomalies, TRUE)]
    ELSE IF SummaryDue(m1, p)
    THEN [sensor_history |-> h1,
          metrics        |-> [m1 EXCEPT !.cloud_messages_sent = @ + 1],
          anomaly_log    |-> log,
          cloud_out      |-> Append(cout, SummaryMessage(p)),
          actuator_out   |-> aout,
          result         |-> Returned(p, anomalies, TRUE)]
    ELSE [sensor_history |-> h1, metrics |-> m1, anomaly_log |-> log,
          cloud_out |-> cout, actuator_out |-> aout,
          result |-> Returned(p, anomalies, FALSE)]

\* anomaly-free readings of the node since a SUMMARY was last sent for it
QuietAfter(q, out) ==
    IF out.result.status # "returned" THEN q
    ELSE LET n == Get(out.result.reading, "node_id", None)
             old == IF n \in DOMAIN q THEN q[n] ELSE 0
             new == IF out.result.should_alert_cloud THEN 0 ELSE old + 1
         IN  [k \in DOMAIN q \cup {n} |-> IF k = n THEN new ELSE q[k]]

\* the paho callback  on_message(client, userdata, msg)  with payload p
on_message(p) ==
    /\ device = MqttClass
    /\ LET out == MqttProcess(sensor_history, metrics, anomaly_log,
                              cloud_out, actuator_out, p)
       IN  /\ sensor_history' = out.sensor_history
           /\ metrics' = out.metrics
           /\ anomaly_log' = out.anomaly_log
           /\ cloud_out' = out.cloud_out
           /\ actuator_out' = out.actuator_out
           /\ result' = out.result
           /\ quiet' = QuietAfter(quiet, out)
    /\ before' = [sensor_history |-> sensor_history, metrics |-> metrics,
                  anomaly_log |-> anomaly_log, actuator_out |-> actuator_out]
    /\ appended' = IF "invalid_json" \in DOMAIN p
                   THEN appended
                   ELSE PushAppended(appended, Get(p, "node_id", None), MqttAppends(p))
    /\ steps' = steps + 1
    /\ UNCHANGED <<device, readVars, nodeVars, fusionVars, mqttVars, actuatorVars, simVars, cloudVars, threadVars>>

\* get_statistics of both edge classes: data_reduction_pct, in thousandths of
\* a percent, from the two counters it divides
data_reduction_pct(cloud_messages_sent, total) ==
    IF total > 0
    THEN ((total - cloud_messages_sent) * 100000) \div total
    ELSE 0

-----------------------------------------------------------------------------
(* CloudServer *)

Statistics0 ==
    [ total_messages   |-> 0,
      anomaly_messages |-> 0,
      normal_messages  |-> 0,
      critical_alerts  |-> 0,
      warnings         |-> 0 ]

\* truth value of  message.get('has_anomaly')
Flagged(message) == Get(message, "has_anomaly", FALSE)

\* message.get('anomalies', [])
Carried(message) == Get(message, "anomalies", << >>)

\* anomaly.get('severity') == sev
HasSeverity(anomaly, sev) ==
    "severity" \in DOMAIN anomaly /\ anomaly.severity = sev

CountSeverity(anomalies, sev) ==
    LET is(a) == HasSeverity(a, sev)
    IN  Len(SelectSeq(anomalies, is))

ReceiveStatistics_Assign(st, message) ==
    IF Flagged(message)
    THEN [st EXCEPT !.total_messages = @ + 1,
                    !.anomaly_messages = @ + 1,
                    !.critical_alerts = CountSeverity(Carried(message), "CRITICAL"),
                    !.warnings = CountSeverity(Carried(message), "WARNING")]
    ELSE [st EXCEPT !.total_messages = @ + 1,
                    !.normal_messages = @ + 1]

ReceiveStatistics_NormalAlways(st, message) ==
    [st EXCEPT !.total_messages = @ + 1,
               !.anomaly_messages = @ + (IF Flagged(message) THEN 1 ELSE 0),
               !.normal_messages = @ + 1]

ReceiveStatistics_IgnoreFlag(st, message) ==
    [st EXCEPT !.total_messages = @ + 1,
               !.anomaly_messages = @ + (IF Flagged(message) THEN 1 ELSE 0),
               !.normal_messages = @ + (IF Flagged(message) THEN 0 ELSE 1),
               !.critical_alerts = @ + CountSeverity(Carried(message), "CRITICAL"),
               !.warnings = @ + CountSeverity(Carried(message), "WARNING")]

\* the counters after receive_message(message) ran alone
ReceiveStatistics(st, message) ==
    IF Flagged(message)
    THEN [st EXCEPT !.total_messages = @ + 1,
                    !.anomaly_messages = @ + 1,
                    !.critical_alerts = @ + CountSeverity(Carried(message), "CRITICAL"),
                    !.warnings = @ + CountSeverity(Carried(message), "WARNING")]
    ELSE [st EXCEPT !.total_messages = @ + 1,
                    !.normal_messages = @ + 1]

\* the stored entry (received_at, a wall-clock stamp, is left out)
Stored(message) == [message |-> message]

\* cloud_server.receive_message(message), called by one thread at a time
receive_message(message) ==
    /\ \A t \in DOMAIN pc : pc[t] = "idle"
    /\ message_storage' = Append(message_storage, Stored(message))
    /\ statistics' = ReceiveStatistics(statistics, message)
    /\ steps' = steps + 1
    /\ UNCHANGED <<device, readVars, nodeVars, fusionVars, mqttVars, actuatorVars, simVars, edgeVars, threadVars>>

-----------------------------------------------------------------------------
(* CloudServer.receive_message run by several threads.  The method takes no *)
(* lock, and  d[k] += 1  is a read of d[k] followed by a write: another     *)
(* thread may run between the two.  list.append is a single step.           *)

NumThreads == 2

Threads == 1..NumThreads

NoFrame == [message |-> << >>, key |-> "", tmp |-> 0, i |-> 0]

\* a thread enters receive_message(message)
T_Call(t, message) ==
    /\ pc[t] = "idle"
    /\ pc' = [pc EXCEPT ![t] = "append"]
    /\ frame' = [frame EXCEPT ![t] = [message |-> message, key |-> "", tmp |-> 0, i |-> 1]]
    /\ steps' = steps + 1
    /\ UNCHANGED <<device, readVars, nodeVars, fusionVars, mqttVars, actuatorVars, simVars, edgeVars, cloudVars>>

\* self.message_storage.append({...})
T_Append(t) ==
    /\ pc[t] = "append"
    /\ message_storage' = Append(message_storage, Stored(frame[t].message))
    /\ pc' = [pc EXCEPT ![t] = "load"]
    /\ frame' = [frame EXCEPT ![t].key = "total_messages"]
    /\ UNCHANGED <<device, readVars, nodeVars, fusionVars, mqttVars, actuatorVars, simVars, edgeVars, statistics, steps>>

\* the read half of  self.statistics[key] += 1
T_Load(t) ==
    /\ pc[t] = "load"
    /\ frame' = [frame EXCEPT ![t].tmp = statistics[frame[t].key]]
    /\ pc' = [pc EXCEPT ![t] = "store"]
    /\ UNCHANGED <<device, readVars, nodeVars, fusionVars, mqttVars, actuatorVars, simVars, edgeVars, cloudVars, steps>>

\* the write half of  self.statistics[key] += 1, and the jump that follows it
T_Store(t) ==
    /\ pc[t] = "store"
    /\ statistics' = [statistics EXCEPT ![frame[t].key] = frame[t].tmp + 1]
    /\ LET key == frame[t].key
       IN  IF key = "total_messages"
           THEN /\ pc' = [pc EXCEPT ![t] = "load"]
                /\ frame' = [frame EXCEPT ![t].key =
                                IF Flagged(frame[t].message)
                                THEN "anomaly_messages" ELSE "normal_messages"]
           ELSE IF key = "normal_messages"
           THEN /\ pc' = [pc EXCEPT ![t] = "idle"]
                /\ frame' = [frame EXCEPT ![t] = NoFrame]
           ELSE IF key = "anomaly_messages"
           THEN /\ pc' = [pc EXCEPT ![t] = "loop"]
                /\ UNCHANGED frame
           ELSE /\ pc' = [pc EXCEPT ![t] = "loop"]
                /\ frame' = [frame EXCEPT ![t].i = @ + 1]
    /\ UNCHANGED <<device, readVars, nodeVars, fusionVars, mqttVars, actuatorVars, simVars, edgeVars, message_storage, steps>>

\* one turn of  for anomaly in message.get('anomalies', [])
T_Loop(t) ==
    /\ pc[t] = "loop"
    /\ LET anomalies == Carried(frame[t].message)
           i == frame[t].i
       IN  IF i > Len(anomalies)
           THEN /\ pc' = [pc EXCEPT ![t] = "idle"]
                /\ frame' = [frame EXCEPT ![t] = NoFrame]
           ELSE IF HasSeverity(anomalies[i], "CRITICAL")
           THEN /\ pc' = [pc EXCEPT ![t] = "load"]
                /\ frame' = [frame EXCEPT ![t].key = "critical_alerts"]
           ELSE IF HasSeverity(anomalies[i], "WARNING")
           THEN /\ pc' = [pc EXCEPT ![t] = "load"]
                /\ frame' = [frame EXCEPT ![t].key = "warnings"]
           ELSE /\ pc' = pc
                /\ frame' = [frame EXCEPT ![t].i = @ + 1]
    /\ UNCHANGED <<device, readVars, nodeVars, fusionVars, mqttVars, actuatorVars, simVars, edgeVars, cloudVars, steps>>

-----------------------------------------------------------------------------
(* IoTActuator *)

NumActuators == 4

actuator_types ==
    << "alarm_system", "cooling_fan", "emergency_valve", "notification_light" >>

\* f'{self.actuator_type.upper()}_ACTIVATED'
ActivatedAction(actuator_type) ==
    CASE actuator_type = "alarm_system"       -> "ALARM_SYSTEM_ACTIVATED"
      [] actuator_type = "cooling_fan"        -> "COOLING_FAN_ACTIVATED"
      [] actuator_type = "emergency_valve"    -> "EMERGENCY_VALVE_ACTIVATED"
      [] actuator_type = "notification_light" -> "NOTIFICATION_LIGHT_ACTIVATED"

\* IoTActuator(actuator_id, actuator_type)
IoTActuator(actuator_id, actuator_type) ==
    [ actuator_id      |-> actuator_id,
      actuator_type    |-> actuator_type,
      state            |-> "OFF",
      activation_count |-> 0,
      activation_log   |-> << >> ]

\* create_actuators(num_actuators=4): {actuator_id: IoTActuator}
create_actuators ==
    [i \in 1..NumActuators |->
        IoTActuator(i, actuator_types[((i - 1) % Len(actuator_types)) + 1])]

\* the entry activate appends (timestamp, a wall-clock stamp, is left out)
LogEntry(a, reason, severity) ==
    [ reason   |-> reason,
      severity |-> severity,
      action   |-> ActivatedAction(a.actuator_type) ]

activate_NoLog(a, reason, severity) ==
    [a EXCEPT !.state = "ON",
              !.activation_count = @ + 1]

activate_Toggle(a, reason, severity) ==
    [a EXCEPT !.state = IF a.state = "ON" THEN "OFF" ELSE "ON",
              !.activation_count = @ + 1,
              !.activation_log = Append(@, LogEntry(a, reason, severity))]

activate_CountOnlyWhenOff(a, reason, severity) ==
    [a EXCEPT !.state = "ON",
              !.activation_count = IF a.state = "OFF" THEN @ + 1 ELSE @,
              !.activation_log = Append(@, LogEntry(a, reason, severity))]

\* the actuator after  a.activate(reason, severity)
activate(a, reason, severity) ==
    [a EXCEPT !.state = "ON",
              !.activation_count = @ + 1,
              !.activation_log = Append(@, LogEntry(a, reason, severity))]

deactivate_Toggle(a) ==
    [a EXCEPT !.state = IF a.state = "ON" THEN "OFF" ELSE "ON"]

\* the actuator after  a.deactivate()
deactivate(a) ==
    IF a.state = "ON" THEN [a EXCEPT !.state = "OFF"] ELSE a

NoCall ==
    [ op          |-> "none",
      actuator_id |-> 0,
      reason      |-> << >>,
      severity    |-> "",
      before      |-> create_actuators ]

Call(op, actuator_id, reason, severity) ==
    [ op          |-> op,
      actuator_id |-> actuator_id,
      reason      |-> reason,
      severity    |-> severity,
      before      |-> actuators ]

\* the call  actuators[i].activate(reason, severity)
ActuatorActivate(i, reason, severity) ==
    /\ actuators' = [actuators EXCEPT ![i] = activate(@, reason, severity)]
    /\ actuator_call' = Call("activate", i, reason, severity)
    /\ steps' = steps + 1
    /\ UNCHANGED <<device, readVars, nodeVars, fusionVars, mqttVars, simVars, edgeVars, cloudVars, threadVars>>

\* the call  actuators[i].deactivate()
ActuatorDeactivate(i) ==
    /\ actuators' = [actuators EXCEPT ![i] = deactivate(@)]
    /\ actuator_call' = Call("deactivate", i, << >>, "")
    /\ steps' = steps + 1
    /\ UNCHANGED <<device, readVars, nodeVars, fusionVars, mqttVars, simVars, edgeVars, cloudVars, threadVars>>

-----------------------------------------------------------------------------
(* SystemSimulation: one turn of the reading loop of each architecture.      *)
(* Latencies are random floats; of `latencies` and `processing_times` only   *)
(* the number of entries is kept.                                            *)

\* the cloud baseline builds no edge device
CloudOnly == "CloudOnly"

EdgeSimMetrics0 ==
    [ latencies            |-> 0,
      data_sent_to_cloud   |-> 0,
      total_data_points    |-> 0,
      processing_times     |-> 0,
      anomalies_detected   |-> 0,
      actuator_activations |-> 0 ]

CloudSimMetrics0 ==
    [ latencies          |-> 0,
      data_sent_to_cloud |-> 0,
      total_data_points  |-> 0,
      processing_times   |-> 0,
      anomalies_detected |-> 0 ]

\* a value in thousandths printed with a fixed number of decimals: the
\* nearest multiple of `unit` thousandths, counted in units
Fixed(v, unit) == (2 * v + unit) \div (2 * unit)

\* the 'message' text detect_anomalies stores in an anomaly, as the values
\* formatted into it: {value:.2f} and {threshold}, {health:.1f},
\* {change_pct:.1f} (percent of the 5-sample average, in tenths)
EdgeMessage(a, hist) ==
    CASE a.type = "threshold_exceeded" ->
            [ text      |-> "threshold_exceeded",
              sensor    |-> a.sensor,
              value     |-> Fixed(a.value, 10),
              threshold |-> a.threshold ]
      [] a.type = "low_health" ->
            [ text   |-> "low_health",
              health |-> Fixed(a.value, 100) ]
      [] a.type = "rapid_change" ->
            LET sum == SumSeq(LastN(hist[a.sensor], 5))
            IN  [ text       |-> "rapid_change",
                  sensor     |-> a.sensor,
                  change_pct |-> (2000 * Abs(5 * a.value - sum) + sum) \div (2 * sum) ]

PrimaryAnomaly_MostSevere(anomalies) ==
    LET critical == SelectSeq(anomalies, IsCritical)
    IN  IF critical # << >> THEN critical[1] ELSE anomalies[1]

\* result['anomalies'][0]: the anomaly whose message and severity are handed
\* to the actuator
PrimaryAnomaly(anomalies) == anomalies[1]

create_cloud_message_CriticalIfAny(r, anomalies) ==
    LET t1 == ValuesFor(r.measurements, "temperature_1")[1]
        t2 == ValuesFor(r.measurements, "temperature_2")[1]
    IN  [ node_id       |-> r.node_id,
          cycle         |-> r.cycle,
          has_anomaly   |-> Len(anomalies) > 0,
          anomaly_count |-> Len(anomalies),
          anomalies     |-> anomalies,
          summary       |->
              [ health          |-> r.health,
                temperature_avg |-> (t1 + t2) \div 2,
                critical_status |-> Len(anomalies) > 0 ] ]

\* EdgeComputingDevice.create_cloud_message (device_id and timestamp left out)
create_cloud_message(r, anomalies) ==
    LET t1 == ValuesFor(r.measurements, "temperature_1")[1]
        t2 == ValuesFor(r.measurements, "temperature_2")[1]
    IN  [ node_id       |-> r.node_id,
          cycle         |-> r.cycle,
          has_anomaly   |-> Len(anomalies) > 0,
          anomaly_count |-> Len(anomalies),
          anomalies     |-> anomalies,
          summary       |->
              [ health          |-> r.health,
                temperature_avg |-> (t1 + t2) \div 2,
                critical_status |-> \E i \in 1..Len(anomalies) : IsCritical(anomalies[i]) ] ]

\* the threshold table of detect_anomaly_in_cloud
cloud_thresholds ==
    [ temperature_1 |-> 550000,
      temperature_2 |-> 680000,
      pressure      |-> 16000,
      vibration     |-> 80,
      rpm           |-> 2450000 ]

CloudAnomaly(sensor, value, severity) ==
    [sensor |-> sensor, value |-> value, severity |-> severity]

detect_anomaly_in_cloud_HealthFirst(r) ==
    LET over(m) == /\ m.sensor \in DOMAIN cloud_thresholds
                   /\ m.value > cloud_thresholds[m.sensor]
        hits == SelectSeq(r.measurements, over)
    IN  (IF r.health < 30000
         THEN << CloudAnomaly("health", r.health,
                              IF r.health < 20000 THEN "CRITICAL" ELSE "WARNING") >>
         ELSE << >>)
        \o [i \in 1..Len(hits) |-> CloudAnomaly(hits[i].sensor, hits[i].value, "WARNING")]

\* detect_anomaly_in_cloud(sensor_reading)
detect_anomaly_in_cloud(r) ==
    LET over(m) == /\ m.sensor \in DOMAIN cloud_thresholds
                   /\ m.value > cloud_thresholds[m.sensor]
        hits == SelectSeq(r.measurements, over)
    IN  [i \in 1..Len(hits) |-> CloudAnomaly(hits[i].sensor, hits[i].value, "WARNING")]
        \o (IF r.health < 30000
            THEN << CloudAnomaly("health", r.health,
                                 IF r.health < 20000 THEN "CRITICAL" ELSE "WARNING") >>
            ELSE << >>)

\* the body of the loop of simulate_edge_architecture, after
\* node.read_sensor_data() returned the reading r
edge_loop_body(r) ==
    /\ device = EdgeClass
    /\ sim_status = "running"
    /\ LET out == EdgeProcess(sensor_history, metrics, anomaly_log, r)
           res == out.result
           anomalies == res.anomalies
           primary == PrimaryAnomaly(anomalies)
           message == create_cloud_message(r, anomalies)
           e1 == [edge_metrics EXCEPT !.total_data_points = @ + 1]
           e2 == [e1 EXCEPT !.processing_times = @ + 1]
           e3 == [e2 EXCEPT !.anomalies_detected = @ + Len(anomalies)]
           e4 == [e3 EXCEPT !.actuator_activations = @ + 1]
           e5 == IF Len(anomalies) > 0 THEN e4 ELSE e2
           e6 == IF res.should_alert_cloud
                 THEN [e5 EXCEPT !.data_sent_to_cloud = @ + 1] ELSE e5
       IN  /\ sensor_history' = out.sensor_history
           /\ metrics' = out.metrics
           /\ anomaly_log' = out.anomaly_log
           /\ result' = res
           /\ IF res.status = "raised"
              THEN /\ edge_metrics' = e1
                   /\ sim_status' = "raised"
                   /\ UNCHANGED <<actuatorVars, cloudVars>>
              ELSE IF Len(anomalies) > 0 /\ r.node_id \notin DOMAIN actuators
              THEN /\ edge_metrics' = e3
                   /\ sim_status' = "raised"
                   /\ UNCHANGED <<actuatorVars, cloudVars>>
              ELSE /\ edge_metrics' = [e6 EXCEPT !.latencies = @ + 1]
                   /\ sim_status' = "running"
                   /\ IF Len(anomalies) > 0
                      THEN LET reason == EdgeMessage(primary, out.sensor_history[r.node_id])
                           IN  /\ actuators' = [actuators EXCEPT ![r.node_id] =
                                                   activate(@, reason, primary.severity)]
                               /\ actuator_call' = Call("activate", r.node_id, reason,
                                                        primary.severity)
                      ELSE UNCHANGED actuatorVars
                   /\ IF res.should_alert_cloud
                      THEN /\ message_storage' = Append(message_storage, Stored(message))
                           /\ statistics' = ReceiveStatistics(statistics, message)
                      ELSE UNCHANGED cloudVars
    /\ before' = [sensor_history |-> sensor_history, metrics |-> metrics,
                  anomaly_log |-> anomaly_log, actuator_out |-> actuator_out]
    /\ appended' = IF HasKeys(r, {"node_id", "measurements", "health"})
                   THEN PushAppended(appended, r.node_id, EdgeAppends(r))
                   ELSE appended
    /\ steps' = steps + 1
    /\ UNCHANGED <<device, readVars, fusionVars, mqttVars, cloud_out, actuator_out, quiet, cloud_metrics, threadVars>>

\* one turn of the loop of simulate_edge_architecture on a reading r handed
\* in from outside the sensor nodes
simulate_edge_step(r) == edge_loop_body(r) /\ UNCHANGED nodeVars

simulate_cloud_step_ForwardAnomalies(r) ==
    /\ device = CloudOnly
    /\ sim_status = "running"
    /\ LET anomalies == detect_anomaly_in_cloud(r)
           message == [ node_id     |-> r.node_id,
                        cycle       |-> r.cycle,
                        has_anomaly |-> Len(anomalies) > 0,
                        anomalies   |-> anomalies ]
           c1 == [cloud_metrics EXCEPT !.total_data_points = @ + 1,
                                       !.processing_times = @ + 1]
           c2 == IF Len(anomalies) > 0
                 THEN [c1 EXCEPT !.anomalies_detected = @ + Len(anomalies),
                                 !.data_sent_to_cloud = @ + 1]
                 ELSE c1
       IN  IF Len(anomalies) > 0 /\ r.node_id \notin DOMAIN actuators
           THEN /\ cloud_metrics' = c2
                /\ sim_status' = "raised"
                /\ UNCHANGED <<actuatorVars, cloudVars>>
           ELSE /\ cloud_metrics' = [c2 EXCEPT !.latencies = @ + 1]
                /\ sim_status' = "running"
                /\ IF Len(anomalies) > 0
                   THEN LET reason == [sensor |-> anomalies[1].sensor]
                        IN  /\ actuators' = [actuators EXCEPT ![r.node_id] =
                                                activate(@, reason, anomalies[1].severity)]
                            /\ actuator_call' = Call("activate", r.node_id, reason,
                                                     anomalies[1].severity)
                            /\ message_storage' = Append(message_storage, Stored(message))
                            /\ statistics' = ReceiveStatistics(statistics, message)
                   ELSE UNCHANGED <<actuatorVars, cloudVars>>
    /\ steps' = steps + 1
    /\ UNCHANGED <<device, readVars, nodeVars, fusionVars, mqttVars, edgeVars, edge_metrics,
                   threadVars>>

\* the body of the loop of simulate_cloud_architecture, after
\* node.read_sensor_data() returned the reading r
cloud_loop_body(r) ==
    /\ device = CloudOnly
    /\ sim_status = "running"
    /\ LET anomalies == detect_anomaly_in_cloud(r)
           message == [ node_id     |-> r.node_id,
                        cycle       |-> r.cycle,
                        has_anomaly |-> Len(anomalies) > 0,
                        anomalies   |-> anomalies ]
           c1 == [cloud_metrics EXCEPT !.total_data_points = @ + 1,
                                       !.data_sent_to_cloud = @ + 1,
                                       !.processing_times = @ + 1]
           c2 == [c1 EXCEPT !.anomalies_detected = @ + Len(anomalies)]
       IN  IF Len(anomalies) > 0 /\ r.node_id \notin DOMAIN actuators
           THEN /\ cloud_metrics' = c2
                /\ sim_status' = "raised"
                /\ UNCHANGED <<actuatorVars, cloudVars>>
           ELSE /\ cloud_metrics' = [c2 EXCEPT !.latencies = @ + 1]
                /\ sim_status' = "running"
                /\ IF Len(anomalies) > 0
                   THEN LET reason == [sensor |-> anomalies[1].sensor]
                        IN  /\ actuators' = [actuators EXCEPT ![r.node_id] =
                                                activate(@, reason, anomalies[1].severity)]
                            /\ actuator_call' = Call("activate", r.node_id, reason,
                                                     anomalies[1].severity)
                   ELSE UNCHANGED actuatorVars
                /\ message_storage' = Append(message_storage, Stored(message))
                /\ statistics' = ReceiveStatistics(statistics, message)
    /\ steps' = steps + 1
    /\ UNCHANGED <<device, readVars, fusionVars, mqttVars, edgeVars, edge_metrics, threadVars>>

\* one turn of the loop of simulate_cloud_architecture on a reading r handed
\* in from outside the sensor nodes
simulate_cloud_step(r) == cloud_loop_body(r) /\ UNCHANGED nodeVars

-----------------------------------------------------------------------------
(* CloudPlatform *)

PlatformStatistics0 ==
    [ total_messages     |-> 0,
      alert_messages     |-> 0,
      summary_messages   |-> 0,
      telemetry_messages |-> 0,
      critical_alerts    |-> 0,
      warnings           |-> 0,
      devices_online     |-> 0 ]

\* CloudPlatform.__init__
CloudPlatform0 ==
    [ statistics     |-> PlatformStatistics0,
      alerts         |-> << >>,
      telemetry_data |-> << >>,
      device_status  |-> << >> ]

alert_topic == "iot/cloud/alerts"

sensor_topic == "iot/sensors/1/data"

\* Python's  'cloud/alerts' in topic
IsAlertTopic(topic) == topic = alert_topic

\* Python's  'sensors' in topic
IsSensorTopic(topic) == topic = sensor_topic

\* d[k].append(v) on a defaultdict(list)
AppendTo(d, k, v) ==
    IF k \in DOMAIN d THEN [d EXCEPT ![k] = Append(@, v)]
    ELSE [x \in DOMAIN d \cup {k} |-> IF x = k THEN <<v>> ELSE d[x]]

\* d[k] = v
Put(d, k, v) == [x \in DOMAIN d \cup {k} |-> IF x = k THEN v ELSE d[x]]

\* d.get(k) for a key whose values are text: None is kept as the text "None",
\* which equals no alert type
GetText(d, k) == IF k \in DOMAIN d THEN d[k] ELSE "None"

\* CloudPlatform.process_alert(message)
process_alert(pf, message) ==
    LET alert_type == GetText(message, "alert_type")
        anomalies == Get(message, "anomalies", << >>)
        node_id == Get(message, "node_id", None)
        st == pf.statistics
        counted ==
            [st EXCEPT !.alert_messages = @ + 1,
                       !.critical_alerts = @ + CountSeverity(anomalies, "CRITICAL"),
                       !.warnings = @ + CountSeverity(anomalies, "WARNING")]
        alert == [ timestamp |-> Get(message, "timestamp", None),
                   node_id   |-> node_id,
                   anomalies |-> anomalies,
                   critical  |-> Get(message, "critical", FALSE) ]
        point == [ timestamp    |-> Get(message, "timestamp", None),
                   health       |-> Get(message, "health", None),
                   measurements |-> Get(message, "measurements", None) ]
        p1 == IF alert_type = "ANOMALY"
              THEN [pf EXCEPT !.statistics = counted,
                              !.alerts = Append(@, alert)]
              ELSE IF alert_type = "SUMMARY"
              THEN [pf EXCEPT !.statistics.summary_messages = @ + 1,
                              !.telemetry_data = AppendTo(@, node_id, point)]
              ELSE pf
    IN  [p1 EXCEPT !.device_status =
            Put(@, node_id, [ status |-> "ONLINE",
                              health |-> Get(message, "health", None) ])]

\* CloudPlatform.process_telemetry(message)
process_telemetry(pf, message) ==
    [pf EXCEPT !.statistics.telemetry_messages = @ + 1,
               !.telemetry_data =
                   AppendTo(@, Get(message, "node_id", None),
                            [ timestamp    |-> Get(message, "timestamp", None),
                              cycle        |-> Get(message, "cycle", None),
                              measurements |-> Get(message, "measurements", None),
                              health       |-> Get(message, "health", None) ])]

PlatformReceive_TelemetryUncounted(pf, topic, payload) ==
    IF HasKeys(payload, {"invalid_json"}) THEN pf
    ELSE LET p1 == [pf EXCEPT !.statistics.total_messages = @ + 1]
         IN  IF IsAlertTopic(topic) THEN process_alert(p1, payload)
             ELSE IF IsSensorTopic(topic) THEN process_telemetry(pf, payload)
             ELSE p1

\* the platform after CloudPlatform.on_message(client, userdata, msg); a
\* payload json.loads rejects is reported and changes nothing
PlatformReceive(pf, topic, payload) ==
    IF HasKeys(payload, {"invalid_json"}) THEN pf
    ELSE LET p1 == [pf EXCEPT !.statistics.total_messages = @ + 1]
         IN  IF IsAlertTopic(topic) THEN process_alert(p1, payload)
             ELSE IF IsSensorTopic(topic) THEN process_telemetry(p1, payload)
             ELSE p1

\* CloudPlatform.on_message
platform_on_message(topic, payload) ==
    /\ platform' = PlatformReceive(platform, topic, payload)
    /\ inbox' = Append(inbox, [topic |-> topic, payload |-> payload])
    /\ steps' = steps + 1
    /\ UNCHANGED <<device, held, nodeVars, fusionVars, mqttVars, actuatorVars, simVars,
                   edgeVars, cloudVars, threadVars>>

-----------------------------------------------------------------------------
(* Reads.  A Python read returns either a new object or a reference to a     *)
(* live one.  `held` keeps which: ref "own" is an object of the caller's,    *)
(* whose content is `value`; any other ref names the live object the caller  *)
(* now shares.  `taken` is the content at the time of the read.              *)

\* every value a read hands out is kept as a record
Nothing == [nothing |-> TRUE]

NoRead ==
    [ op |-> "none", ref |-> "own", value |-> Nothing, taken |-> Nothing,
      rest |-> Nothing, modified |-> FALSE ]

Own == "own"

ServerStatistics == "CloudServer.statistics"

PlatformStatistics == "CloudPlatform.statistics"

\* what a read hands to its caller: the object `ref` with content `value`
Handed(ref, value) == [ref |-> ref, value |-> value]

Read(op, handed, rest) ==
    [ op |-> op, ref |-> handed.ref, value |-> handed.value,
      taken |-> handed.value, rest |-> rest, modified |-> FALSE ]

\* what the caller sees in the object it holds
Observed(h) ==
    CASE h.ref = Own -> h.value
      [] h.ref = ServerStatistics -> statistics
      [] h.ref = PlatformStatistics -> platform.statistics

\* IoTActuator.get_status()
get_status(a) ==
    [ actuator_id       |-> a.actuator_id,
      type              |-> a.actuator_type,
      state             |-> a.state,
      activation_count  |-> a.activation_count,
      total_activations |-> Len(a.activation_log) ]

actuator_get_status(i) ==
    /\ held' = Read("IoTActuator.get_status", Handed(Own, get_status(actuators[i])), Nothing)
    /\ steps' = steps + 1
    /\ UNCHANGED <<device, platform, inbox, nodeVars, fusionVars, mqttVars, actuatorVars, simVars,
                   edgeVars, cloudVars, threadVars>>

server_get_statistics_Live(st) == Handed(ServerStatistics, st)

\* CloudServer.get_statistics(): self.statistics.copy()
server_get_statistics(st) == Handed(Own, st)

get_statistics ==
    /\ held' = Read("CloudServer.get_statistics", server_get_statistics(statistics), Nothing)
    /\ steps' = steps + 1
    /\ UNCHANGED <<device, platform, inbox, nodeVars, fusionVars, mqttVars, actuatorVars, simVars,
                   edgeVars, cloudVars, threadVars>>

\* Python's  s[-count:]  (s[-0:] is s[0:], the whole list)
Recent(s, count) ==
    IF count = 0 THEN s
    ELSE IF count > 0 THEN SubSeq(s, Max(Len(s) - count, 0) + 1, Len(s))
    ELSE SubSeq(s, Min(0 - count, Len(s)) + 1, Len(s))

\* CloudServer.get_recent_messages(count): a new list
get_recent_messages(count) ==
    /\ held' = Read("CloudServer.get_recent_messages",
                    Handed(Own, [messages |-> Recent(message_storage, count)]),
                    [count |-> count, received |-> Len(message_storage)])
    /\ steps' = steps + 1
    /\ UNCHANGED <<device, platform, inbox, nodeVars, fusionVars, mqttVars, actuatorVars, simVars,
                   edgeVars, cloudVars, threadVars>>

\* CloudPlatform.get_statistics(): self.statistics.copy()
platform_get_statistics ==
    /\ held' = Read("CloudPlatform.get_statistics",
                    Handed(Own, platform.statistics), Nothing)
    /\ steps' = steps + 1
    /\ UNCHANGED <<device, platform, inbox, nodeVars, fusionVars, mqttVars, actuatorVars, simVars,
                   edgeVars, cloudVars, threadVars>>

\* sorted(alerts, key=timestamp, reverse=True): a stable sort, so alerts of
\* the same timestamp keep their order
InsertNewestFirst(sorted, x) ==
    LET keep == { i \in 1..Len(sorted) : sorted[i].timestamp >= x.timestamp }
        k == Cardinality(keep)
    IN  SubSeq(sorted, 1, k) \o <<x>> \o SubSeq(sorted, k + 1, Len(sorted))

RECURSIVE NewestFirst(_)
NewestFirst(alerts) ==
    IF alerts = << >> THEN << >>
    ELSE InsertNewestFirst(NewestFirst(SubSeq(alerts, 1, Len(alerts) - 1)),
                           alerts[Len(alerts)])

\* sorted raises TypeError when it has to compare a timestamp that is None
SortRaises(alerts) ==
    /\ Len(alerts) >= 2
    /\ \E i \in 1..Len(alerts) : alerts[i].timestamp = None

RECURSIVE SumLen(_, _)
SumLen(d, keys) ==
    IF keys = {} THEN 0
    ELSE LET k == CHOOSE x \in keys : TRUE
         IN  Len(d[k]) + SumLen(d, keys \ {k})

\* the fields of the dashboard other than 'statistics'
Dashboard(pf) ==
    [ active_devices |->
          Cardinality({ n \in DOMAIN pf.device_status :
                          pf.device_status[n].status = "ONLINE" }),
      recent_alerts |-> SubSeq(NewestFirst(pf.alerts), 1, Min(5, Len(pf.alerts))),
      device_health |->
          [ n \in DOMAIN pf.device_status |->
              [ health |-> pf.device_status[n].health,
                status |-> pf.device_status[n].status ] ],
      total_telemetry_points |-> SumLen(pf.telemetry_data, DOMAIN pf.telemetry_data) ]

\* the 'statistics' entry of the dict get_dashboard_data returns:
\* self.statistics itself
DashboardStatistics(pf) == Handed(PlatformStatistics, pf.statistics)

\* CloudPlatform.get_dashboard_data()
get_dashboard_data ==
    /\ held' = IF SortRaises(platform.alerts)
               THEN [NoRead EXCEPT !.op = "raised"]
               ELSE Read("CloudPlatform.get_dashboard_data",
                         DashboardStatistics(platform), Dashboard(platform))
    /\ steps' = steps + 1
    /\ UNCHANGED <<device, platform, inbox, nodeVars, fusionVars, mqttVars, actuatorVars, simVars,
                   edgeVars, cloudVars, threadVars>>

StatisticsReads ==
    { "CloudServer.get_statistics", "CloudPlatform.get_statistics",
      "CloudPlatform.get_dashboard_data" }

\* the caller of a statistics read sets  returned['total_messages'] = 0  in
\* the dict it was handed
caller_modifies ==
    /\ held.op \in StatisticsReads
    /\ held' = [held EXCEPT !.modified = TRUE,
                            !.value = IF held.ref = Own
                                      THEN [@ EXCEPT !.total_messages = 0] ELSE @]
    /\ statistics' = IF held.ref = ServerStatistics
                     THEN [statistics EXCEPT !.total_messages = 0] ELSE statistics
    /\ platform' = IF held.ref = PlatformStatistics
                   THEN [platform EXCEPT !.statistics.total_messages = 0] ELSE platform
    /\ steps' = steps + 1
    /\ UNCHANGED <<device, message_storage, inbox, nodeVars, fusionVars, mqttVars, actuatorVars,
                   simVars, edgeVars, threadVars>>

-----------------------------------------------------------------------------
(* IoTSensorNode.  A row of the data source holds the columns the node       *)
(* reads; float columns, `cycle` among them once pandas has put the row in   *)
(* one float Series, are in thousandths.  Of a reading, timestamp and         *)
(* metadata (text and a battery level no other code reads) are left out.      *)

\* Python's int(x) on a float: truncation toward zero
PyInt(v) == IF v >= 0 THEN v \div 1000 ELSE 0 - ((0 - v) \div 1000)

\* IoTSensorNode.__init__
IoTSensorNode(node_id, data_source) ==
    [ node_id       |-> node_id,
      data_source   |-> data_source,
      current_cycle |-> 0,
      total_cycles  |-> Len(data_source) ]

\* data.head(num_cycles)
Head_n(data, num_cycles) == SubSeq(data, 1, Min(num_cycles, Len(data)))

\* create_sensor_nodes(sensor_data, num_cycles); num_cycles None or 0 keeps
\* every row
SensorNodes(sensor_data, num_cycles) ==
    [ n \in DOMAIN sensor_data |->
        IoTSensorNode(n, IF num_cycles = None \/ num_cycles = 0
                         THEN sensor_data[n]
                         ELSE Head_n(sensor_data[n], num_cycles)) ]

\* what read_sensor_data returns at the end of the stream
NoReading == [none |-> TRUE]

\* the sensor_reading dict built from a row
SensorReading(node_id, row) ==
    [ node_id      |-> node_id,
      cycle        |-> PyInt(row.cycle),
      measurements |-> << [sensor |-> "temperature_1", value |-> row.sensor_temp1],
                          [sensor |-> "temperature_2", value |-> row.sensor_temp2],
                          [sensor |-> "pressure", value |-> row.sensor_pressure],
                          [sensor |-> "vibration", value |-> row.sensor_vibration],
                          [sensor |-> "rpm", value |-> row.sensor_rpm] >>,
      health       |-> row.health_indicator ]

ReadSensor_Rewinds(node) ==
    IF node.current_cycle >= node.total_cycles
    THEN [ node |-> [node EXCEPT !.current_cycle = 0], returned |-> NoReading ]
    ELSE [ node     |-> [node EXCEPT !.current_cycle = @ + 1],
           returned |-> SensorReading(node.node_id,
                                      node.data_source[node.current_cycle + 1]) ]

\* node.read_sensor_data(): the node afterwards and the value returned
ReadSensor(node) ==
    IF node.current_cycle >= node.total_cycles
    THEN [ node |-> node, returned |-> NoReading ]
    ELSE [ node     |-> [node EXCEPT !.current_cycle = @ + 1],
           returned |-> SensorReading(node.node_id,
                                      node.data_source[node.current_cycle + 1]) ]

create_sensor_nodes(sensor_data, num_cycles) ==
    /\ sensor_nodes = << >>
    /\ sensor_nodes' = SensorNodes(sensor_data, num_cycles)
    /\ delivered' = [n \in DOMAIN sensor_data |-> << >>]
    /\ steps' = steps + 1
    /\ UNCHANGED <<device, readVars, fusionVars, mqttVars, actuatorVars, simVars, edgeVars,
                   cloudVars, threadVars>>

read_sensor_data(n) ==
    /\ n \in DOMAIN sensor_nodes
    /\ LET out == ReadSensor(sensor_nodes[n])
       IN  /\ sensor_nodes' = [sensor_nodes EXCEPT ![n] = out.node]
           /\ delivered' = [delivered EXCEPT ![n] = Append(@, out.returned)]
    /\ steps' = steps + 1
    /\ UNCHANGED <<device, readVars, fusionVars, mqttVars, actuatorVars, simVars, edgeVars,
                   cloudVars, threadVars>>

-----------------------------------------------------------------------------
(* SystemSimulation: the two architecture runs of main(), one after the      *)
(* other, each over its own sensor nodes built from the same data file       *)

\* SystemSimulation(num_cycles=50)
num_cycles == 50

\* every node has delivered its last row
Exhausted(nodes) ==
    \A n \in DOMAIN nodes : nodes[n].current_cycle >= nodes[n].total_cycles

\* for node in sensor_nodes: the node whose inner loop is running, the first
\* one that still has rows (a node without rows returns None at once and the
\* loop moves on)
CurrentNode(nodes) ==
    CHOOSE n \in DOMAIN nodes :
        /\ nodes[n].current_cycle < nodes[n].total_cycles
        /\ \A k \in DOMAIN nodes :
              nodes[k].current_cycle < nodes[k].total_cycles => n <= k

\* one turn of the inner loop of simulate_edge_architecture:
\* node.read_sensor_data(), then the loop body on the reading
edge_loop_turn ==
    /\ sensor_nodes # << >>
    /\ ~Exhausted(sensor_nodes)
    /\ LET n == CurrentNode(sensor_nodes)
           out == ReadSensor(sensor_nodes[n])
       IN  /\ sensor_nodes' = [sensor_nodes EXCEPT ![n] = out.node]
           /\ delivered' = [delivered EXCEPT ![n] = Append(@, out.returned)]
           /\ edge_loop_body(out.returned)

\* simulate_cloud_architecture up to its loop, called once the edge run has
\* returned: load_sensor_data() reads the same file again, and the sensor
\* nodes, the actuators and the cloud server are built anew
simulate_cloud_architecture ==
    /\ device = EdgeClass
    /\ sim_status = "running"
    /\ sensor_nodes # << >>
    /\ Exhausted(sensor_nodes)
    /\ device' = CloudOnly
    /\ sensor_nodes' = SensorNodes([n \in DOMAIN sensor_nodes |->
                                       sensor_nodes[n].data_source], num_cycles)
    /\ delivered' = [n \in DOMAIN sensor_nodes |-> << >>]
    /\ actuators' = create_actuators
    /\ actuator_call' = NoCall
    /\ message_storage' = << >>
    /\ statistics' = Statistics0
    /\ steps' = steps + 1
    /\ UNCHANGED <<readVars, fusionVars, mqttVars, simVars, edgeVars, threadVars>>

\* one turn of the inner loop of simulate_cloud_architecture
cloud_loop_turn ==
    /\ sensor_nodes # << >>
    /\ ~Exhausted(sensor_nodes)
    /\ LET n == CurrentNode(sensor_nodes)
           out == ReadSensor(sensor_nodes[n])
       IN  /\ sensor_nodes' = [sensor_nodes EXCEPT ![n] = out.node]
           /\ delivered' = [delivered EXCEPT ![n] = Append(@, out.returned)]
           /\ cloud_loop_body(out.returned)

-----------------------------------------------------------------------------
(* Decision fusion.  The edge device under src/ has no classifier path; the   *)
(* fusion of the rule anomalies with a classifier result is taken from the    *)
(* specification of DecisionFusion (fuse) and ClassifierAdapter (score).      *)
(* Confidence is in thousandths.                                              *)

NoDecision == [ status |-> "none" ]

\* the policy constant: a confidence above 0.8 makes the flag CRITICAL
confidence_threshold == 800

\* score fails with ModelUnavailable: the caller falls back to rules only
ModelUnavailable == [is_anomalous |-> FALSE, confidence |-> 0, available |-> FALSE]

ClassifierResult(is_anomalous, confidence) ==
    [is_anomalous |-> is_anomalous, confidence |-> confidence, available |-> TRUE]

ClassifierFlag(cr) ==
    [ type      |-> "classifier_flag",
      sensor    |-> "classifier",
      value     |-> cr.confidence,
      threshold |-> confidence_threshold,
      severity  |-> IF cr.confidence > confidence_threshold
                    THEN "CRITICAL" ELSE "WARNING" ]

fuse_FlagFirst(rule_anomalies, cr) ==
    IF cr.available /\ cr.is_anomalous
    THEN <<ClassifierFlag(cr)>> \o rule_anomalies
    ELSE rule_anomalies

\* fuse(rule_anomalies, classifier_result): the ordered anomaly list
fuse(rule_anomalies, cr) ==
    IF cr.available /\ cr.is_anomalous
    THEN Append(rule_anomalies, ClassifierFlag(cr))
    ELSE rule_anomalies

\* the fused decision for the reading the edge device has just processed
Decision(res, cr) ==
    IF res.status # "returned" THEN [ status |-> "raised" ]
    ELSE LET anomalies == fuse(res.anomalies, cr)
         IN  [ status         |-> "fused",
               classifier     |-> cr,
               rule_anomalies |-> res.anomalies,
               anomalies      |-> anomalies,
               should_forward |-> ShouldAlertCloud(anomalies, res.reading) ]

\* one reading through the rule detector and the fusion with the classifier
\* result cr
fused_decision(r, cr) ==
    /\ device = EdgeClass
    /\ LET out == EdgeProcess(sensor_history, metrics, anomaly_log, r)
       IN  /\ sensor_history' = out.sensor_history
           /\ metrics' = out.metrics
           /\ anomaly_log' = out.anomaly_log
           /\ result' = out.result
           /\ decision' = Decision(out.result, cr)
    /\ before' = [sensor_history |-> sensor_history, metrics |-> metrics,
                  anomaly_log |-> anomaly_log, actuator_out |-> actuator_out]
    /\ appended' = IF HasKeys(r, {"node_id", "measurements", "health"})
                   THEN PushAppended(appended, r.node_id, EdgeAppends(r))
                   ELSE appended
    /\ steps' = steps + 1
    /\ UNCHANGED <<device, readVars, nodeVars, mqttVars, actuatorVars, simVars, cloud_out,
                   actuator_out, quiet, cloudVars, threadVars>>

-----------------------------------------------------------------------------
(* The MQTT components: MQTTEdgeDevice, CloudPlatform and MQTTSensorNode.     *)
(* Each owns a paho client; connect() starts the client's network loop and    *)
(* waits up to 10 s for `connected`, and the loop thread delivers on_connect  *)
(* whenever the broker answers a connection attempt.                          *)

EdgeDevice == "MQTTEdgeDevice"

Platform == "CloudPlatform"

SensorNode == "MQTTSensorNode"

Components == {EdgeDevice, Platform, SensorNode}

\* the object after __init__: self.connected = False, no subscription, no
\* connect() running, network loop not started
Client0 ==
    [ connected    |-> FALSE,
      subscribed   |-> << >>,
      loop_started |-> FALSE,
      connecting   |-> FALSE,
      returned     |-> "none",   \* what the last connect() returned
      accepted     |-> 0,        \* history: on_connect callbacks with rc == 0
      refused      |-> 0 ]       \* history: on_connect callbacks with rc != 0

NoCallback ==
    [ op |-> "none", component |-> "none", rc |-> 0, returned |-> "none",
      before |-> Client0, current_cycle |-> 0 ]

Callback(op, c, rc, returned) ==
    [ op |-> op, component |-> c, rc |-> rc, returned |-> returned,
      before |-> mqtt[c], current_cycle |-> publisher.current_cycle ]

\* the topics on_connect subscribes to: sensor_topic of the edge device,
\* alert_topic of the platform; the sensor node subscribes to nothing
SubscribedOnConnect(c) ==
    CASE c = EdgeDevice -> << "iot/sensors/+/data" >>
      [] c = Platform   -> << "iot/cloud/alerts" >>
      [] c = SensorNode -> << >>

\* connect() up to its wait loop: client.connect raises (broker unreachable)
\* and connect() returns False, or loop_start() runs and the wait begins
connect(c, raises) ==
    /\ ~mqtt[c].connecting
    /\ mqtt' = [mqtt EXCEPT ![c] =
                   IF raises
                   THEN [@ EXCEPT !.returned = "False"]
                   ELSE [@ EXCEPT !.loop_started = TRUE, !.connecting = TRUE,
                                  !.returned = "none"]]
    /\ last_callback' = Callback("connect", c, 0, IF raises THEN "False" ELSE "none")
    /\ steps' = steps + 1
    /\ UNCHANGED <<device, publisher, readVars, nodeVars, fusionVars, actuatorVars,
                   simVars, edgeVars, cloudVars, threadVars>>

on_connect_SubscribeAlways(st, c, rc) ==
    IF rc = 0
    THEN [st EXCEPT !.connected = TRUE,
                    !.subscribed = @ \o SubscribedOnConnect(c),
                    !.accepted = @ + 1]
    ELSE [st EXCEPT !.subscribed = @ \o SubscribedOnConnect(c),
                    !.refused = @ + 1]

\* on_connect(client, userdata, flags, rc) on the component's state
on_connect(st, c, rc) ==
    IF rc = 0
    THEN [st EXCEPT !.connected = TRUE,
                    !.subscribed = @ \o SubscribedOnConnect(c),
                    !.accepted = @ + 1]
    ELSE [st EXCEPT !.refused = @ + 1]

\* the loop thread calls on_connect with the broker's return code
on_connect_callback(c, rc) ==
    /\ mqtt[c].loop_started
    /\ mqtt' = [mqtt EXCEPT ![c] = on_connect(@, c, rc)]
    /\ last_callback' = Callback("on_connect", c, rc, "none")
    /\ steps' = steps + 1
    /\ UNCHANGED <<device, publisher, readVars, nodeVars, fusionVars, actuatorVars,
                   simVars, edgeVars, cloudVars, threadVars>>

\* the end of connect(): the wait loop ends because `connected` is set or the
\* 10 s are over, and connect() returns True exactly if `connected` is set
connect_return(c) ==
    /\ mqtt[c].connecting
    /\ LET returned == IF mqtt[c].connected THEN "True" ELSE "False"
       IN  /\ mqtt' = [mqtt EXCEPT ![c] = [@ EXCEPT !.connecting = FALSE,
                                                    !.returned = returned]]
           /\ last_callback' = Callback("connect_return", c, 0, returned)
    /\ steps' = steps + 1
    /\ UNCHANGED <<device, publisher, readVars, nodeVars, fusionVars, actuatorVars,
                   simVars, edgeVars, cloudVars, threadVars>>

-----------------------------------------------------------------------------
(* MQTTSensorNode.read_and_publish *)

\* mqtt.MQTT_ERR_SUCCESS, the code client.publish returns for a message it
\* took
MQTT_ERR_SUCCESS == 0

NoPublisher ==
    [ node_id |-> 0, data_source |-> << >>, current_cycle |-> 0,
      total_cycles |-> 0, published |-> << >>, returns |-> << >> ]

\* MQTTSensorNode.__init__; `published` and `returns` are history: the
\* payloads handed to the broker and what read_and_publish returned
MQTTSensorNode(node_id, data_source) ==
    [ node_id       |-> node_id,
      data_source   |-> data_source,
      current_cycle |-> 0,
      total_cycles  |-> Len(data_source),
      published     |-> << >>,
      returns       |-> << >> ]

\* read_and_publish() on node p whose `connected` flag is given; rc is the
\* code client.publish returns
ReadAndPublish(p, connected, rc) ==
    IF p.current_cycle >= p.total_cycles
    THEN [p EXCEPT !.returns = Append(@, FALSE)]
    ELSE IF ~connected
    THEN [p EXCEPT !.returns = Append(@, FALSE)]
    ELSE LET row == p.data_source[p.current_cycle + 1]
             sensor_reading == SensorReading(p.node_id, row)
             p1 == [p EXCEPT !.current_cycle = @ + 1]
         IN  IF rc = MQTT_ERR_SUCCESS
             THEN [p1 EXCEPT !.published = Append(@, sensor_reading),
                             !.returns = Append(@, TRUE)]
             ELSE [p1 EXCEPT !.returns = Append(@, FALSE)]

\* create_mqtt_sensors for one engine of the data file
create_mqtt_sensors(node_id, data, n) ==
    /\ publisher = NoPublisher
    /\ publisher' = MQTTSensorNode(node_id, IF n = None \/ n = 0 THEN data
                                            ELSE Head_n(data, n))
    /\ last_callback' = Callback("create", SensorNode, 0, "none")
    /\ steps' = steps + 1
    /\ UNCHANGED <<device, mqtt, readVars, nodeVars, fusionVars, actuatorVars,
                   simVars, edgeVars, cloudVars, threadVars>>

\* node.read_and_publish()
read_and_publish(rc) ==
    /\ publisher # NoPublisher
    /\ publisher' = ReadAndPublish(publisher, mqtt[SensorNode].connected, rc)
    /\ last_callback' =
          Callback("read_and_publish", SensorNode, rc,
                   IF publisher'.returns[Len(publisher'.returns)]
                   THEN "True" ELSE "False")
    /\ steps' = steps + 1
    /\ UNCHANGED <<device, mqtt, readVars, nodeVars, fusionVars, actuatorVars,
                   simVars, edgeVars, cloudVars, threadVars>>

-----------------------------------------------------------------------------
(* Initial state: the objects as their constructors leave them *)

InitWith(d) ==
    /\ device = d
    /\ sensor_history = << >>
    /\ metrics = (IF d = EdgeClass THEN EdgeMetrics0 ELSE MqttMetrics0)
    /\ anomaly_log = << >>
    /\ cloud_out = << >>
    /\ actuator_out = << >>
    /\ result = NoResult
    /\ message_storage = << >>
    /\ statistics = Statistics0
    /\ pc = [t \in Threads |-> "idle"]
    /\ frame = [t \in Threads |-> NoFrame]
    /\ appended = << >>
    /\ before = [sensor_history |-> << >>,
                 metrics |-> (IF d = EdgeClass THEN EdgeMetrics0 ELSE MqttMetrics0),
                 anomaly_log |-> << >>, actuator_out |-> << >>]
    /\ quiet = << >>
    /\ steps = 0
    /\ actuators = create_actuators
    /\ actuator_call = NoCall
    /\ edge_metrics = EdgeSimMetrics0
    /\ cloud_metrics = CloudSimMetrics0
    /\ sim_status = "running"
    /\ platform = CloudPlatform0
    /\ held = NoRead
    /\ inbox = << >>
    /\ sensor_nodes = << >>
    /\ delivered = << >>
    /\ decision = NoDecision
    /\ mqtt = [c \in Components |-> Client0]
    /\ publisher = NoPublisher
    /\ last_callback = NoCallback

\* main_analysis.py builds an EdgeComputingDevice, mqtt_main_analysis.py an
\* MQTTEdgeDevice
Init == \E d \in {EdgeClass, MqttClass} : InitWith(d)

-----------------------------------------------------------------------------
(* Inputs *)

Item(sensor, value) == [sensor |-> sensor, value |-> value]

T1(value) == << Item("temperature_1", value) >>

Reading(node_id, cycle, measurements, health) ==
    [node_id |-> node_id, cycle |-> cycle,
     measurements |-> measurements, health |-> health]

\* the dict d without key k
Without(d, k) == [x \in DOMAIN d \ {k} |-> d[x]]

\* a payload json.loads rejects
InvalidJson == [invalid_json |-> TRUE]

WellFormed(r) ==
    /\ HasKeys(r, {"node_id", "cycle", "measurements", "health"})
    /\ IsNumber(r.health)
    /\ \A i \in 1..Len(r.measurements) :
          /\ r.measurements[i].sensor \in HistoryKeys
          /\ IsNumber(r.measurements[i].value)

-----------------------------------------------------------------------------
(* Spec: one node, well-formed and malformed readings *)

MaxReadings == 5

Base == Reading(1, 3, T1(500000), 35000)

Hot == Reading(1, 3, T1(600000), 35000)

Readings ==
    { Base, Hot, Reading(1, 10, T1(500000), 35000) }
    \cup { Without(Base, k) : k \in {"node_id", "cycle", "measurements", "health"} }
    \cup { Without(Hot, "cycle") }
    \cup { Reading(1, 3, << Item("temperature_1", 500000), Item("humidity", 40000) >>, 35000) }
    \cup { Reading(1, 3, T1(NonNumeric), 35000) }

EdgeCall == \E r \in Readings : steps < MaxReadings /\ process_sensor_data(r)

MqttDeliver ==
    \E p \in Readings \cup {InvalidJson} : steps < MaxReadings /\ on_message(p)

Next == EdgeCall \/ MqttDeliver

Spec == Init /\ [][Next]_vars

-----------------------------------------------------------------------------
(* SpecDrift: two nodes whose readings interleave; every reading is one      *)
(* tick warmer than the last and stays below every threshold                 *)

MaxDrift == 11

Nodes == {1, 2}

DriftReadings ==
    { Reading(n, steps + 1, T1(500000 + 1000 * steps), 35000) : n \in Nodes }

DriftEdgeCall == \E r \in DriftReadings : steps < MaxDrift /\ process_sensor_data(r)

DriftMqttDeliver == \E r \in DriftReadings : steps < MaxDrift /\ on_message(r)

NextDrift == DriftEdgeCall \/ DriftMqttDeliver

SpecDrift == Init /\ [][NextDrift]_vars

-----------------------------------------------------------------------------
(* SpecCadence: EdgeComputingDevice over readings of every cycle number      *)

MaxCadence == 3

MaxCycle == 10

CadenceReadings ==
    { Reading(1, c, T1(v), 35000) : c \in 0..MaxCycle, v \in {500000, 600000} }
    \cup { Reading(1, c, T1(500000), 25000) : c \in {7, 10} }
    \cup { Without(Base, "cycle"), Without(Hot, "cycle") }

CadenceCall == \E r \in CadenceReadings : steps < MaxCadence /\ process_sensor_data(r)

NextCadence == CadenceCall

SpecCadence == InitWith(EdgeClass) /\ [][NextCadence]_vars

-----------------------------------------------------------------------------
(* SpecHealth: both edge devices over readings of every health band          *)

MaxHealth == 2

HealthValues == {15000, 19999, 20000, 25000, 29999, 30000, 35000}

HealthReadings ==
    { Reading(1, 3, T1(500000), h) : h \in HealthValues }
    \cup { Reading(1, 3, T1(600000), 15000) }

HealthEdgeCall == \E r \in HealthReadings : steps < MaxHealth /\ process_sensor_data(r)

HealthMqttDeliver ==
    \E p \in HealthReadings \cup {Without(Base, "health")} :
        steps < MaxHealth /\ on_message(p)

NextHealth == HealthEdgeCall \/ HealthMqttDeliver

SpecHealth == Init /\ [][NextHealth]_vars

-----------------------------------------------------------------------------
(* SpecCloud: CloudServer.receive_message, one call at a time                *)

MaxMessages == 3

Sev(s) == [severity |-> s]

Messages ==
    { [has_anomaly |-> TRUE] }
    \cup { [has_anomaly |-> TRUE, anomalies |-> a] :
             a \in { <<Sev("CRITICAL")>>, <<Sev("WARNING")>>, <<Sev("INFO")>>,
                     <<Sev("CRITICAL"), Sev("WARNING")>>,
                     <<Sev("WARNING"), [message |-> "no severity"]>> } }
    \cup { [has_anomaly |-> FALSE] }
    \cup { [has_anomaly |-> FALSE, anomalies |-> a] :
             a \in { <<Sev("WARNING")>>, <<Sev("CRITICAL"), Sev("WARNING")>> } }
    \cup { [anomalies |-> <<Sev("CRITICAL")>>] }

CloudReceive == \E m \in Messages : steps < MaxMessages /\ receive_message(m)

NextCloud == CloudReceive

SpecCloud == InitWith(EdgeClass) /\ [][NextCloud]_vars

-----------------------------------------------------------------------------
(* SpecConc: receive_message called from several threads at once             *)

MaxCalls == 3

ConcMessages ==
    { [has_anomaly |-> FALSE],
      [has_anomaly |-> TRUE, anomalies |-> <<Sev("CRITICAL")>>],
      [has_anomaly |-> TRUE, anomalies |-> <<Sev("INFO"), Sev("WARNING")>>] }

ThreadCall == \E t \in Threads, m \in ConcMessages : steps < MaxCalls /\ T_Call(t, m)

ThreadAppend == \E t \in Threads : T_Append(t)

ThreadLoad == \E t \in Threads : T_Load(t)

ThreadStore == \E t \in Threads : T_Store(t)

ThreadLoop == \E t \in Threads : T_Loop(t)

NextConc == ThreadCall \/ ThreadAppend \/ ThreadLoad \/ ThreadStore \/ ThreadLoop

SpecConc == InitWith(EdgeClass) /\ [][NextConc]_vars

-----------------------------------------------------------------------------
(* SpecThreshold: both edge devices over readings of two channels, listed in *)
(* either order, each below, at and above its threshold                      *)

MaxThreshold == 2

TwoChannels(t, p) ==
    { << Item("temperature_1", t), Item("pressure", p) >>,
      << Item("pressure", p), Item("temperature_1", t) >> }

ThresholdReadings ==
    { Reading(1, 3, ms, 35000) :
        ms \in UNION { TwoChannels(t, p) : t \in {549999, 550000, 550001},
                                           p \in {16000, 16001} } }

ThresholdEdgeCall ==
    \E r \in ThresholdReadings : steps < MaxThreshold /\ process_sensor_data(r)

ThresholdMqttDeliver ==
    \E r \in ThresholdReadings : steps < MaxThreshold /\ on_message(r)

NextThreshold == ThresholdEdgeCall \/ ThresholdMqttDeliver

SpecThreshold == Init /\ [][NextThreshold]_vars

-----------------------------------------------------------------------------
(* SpecZero: both edge devices over a vibration channel whose samples are    *)
(* zero or cancel out, alone or beside a hot temperature and a low health    *)

MaxZero == 5

ZeroReadings ==
    { Reading(1, 3, << Item("vibration", v) >>, 35000) : v \in {0 - 40, 0, 40} }
    \cup { Reading(1, 3, << Item("temperature_1", 600000), Item("vibration", 0) >>, 25000) }

ZeroEdgeCall == \E r \in ZeroReadings : steps < MaxZero /\ process_sensor_data(r)

ZeroMqttDeliver == \E r \in ZeroReadings : steps < MaxZero /\ on_message(r)

NextZero == ZeroEdgeCall \/ ZeroMqttDeliver

SpecZero == Init /\ [][NextZero]_vars

-----------------------------------------------------------------------------
(* SpecRapid: both edge devices over one temperature channel whose values    *)
(* sit at, just above and far above a 15% change, or are negative            *)

MaxRapid == 5

RapidReadings ==
    { Reading(1, 3, T1(v), 35000) : v \in {77000, 92000, 92001, 0 - 92001} }
    \cup { Reading(1, 3, T1(600000), 15000) }

RapidEdgeCall == \E r \in RapidReadings : steps < MaxRapid /\ process_sensor_data(r)

RapidMqttDeliver == \E r \in RapidReadings : steps < MaxRapid /\ on_message(r)

NextRapid == RapidEdgeCall \/ RapidMqttDeliver

SpecRapid == Init /\ [][NextRapid]_vars

-----------------------------------------------------------------------------
(* SpecActuator: activate and deactivate called on the actuators in any      *)
(* order                                                                     *)

MaxActuatorCalls == 4

Reasons == { [text |-> "high temperature"] }

Severities == { "INFO", "WARNING" }

ActivateCall ==
    \E i \in {1, 2}, reason \in Reasons, severity \in Severities :
        steps < MaxActuatorCalls /\ ActuatorActivate(i, reason, severity)

DeactivateCall ==
    \E i \in {1, 2} : steps < MaxActuatorCalls /\ ActuatorDeactivate(i)

NextActuator == ActivateCall \/ DeactivateCall

SpecActuator == InitWith(EdgeClass) /\ [][NextActuator]_vars

-----------------------------------------------------------------------------
(* SpecSim: the reading loop of the edge architecture or of the cloud        *)
(* baseline, over readings of the five channels read_sensor_data delivers    *)

MaxSim == 3

FullReading(node_id, cycle, t1, health) ==
    Reading(node_id, cycle,
            << Item("temperature_1", t1), Item("temperature_2", 600000),
               Item("pressure", 14000), Item("vibration", 50),
               Item("rpm", 2300000) >>,
            health)

\* node 5 has no actuator: create_actuators builds actuators 1..4
SimReadings ==
    { FullReading(n, 3, 500000, 35000) : n \in {1, 2, 5} }
    \cup { FullReading(n, 10, 500000, 35000) : n \in {1, 2} }
    \cup { FullReading(n, 3, 600000, 35000) : n \in {1, 2} }
    \cup { FullReading(n, 3, 600000, 15000) : n \in {1, 2, 5} }
    \cup { FullReading(1, 3, 500000, 15000) }

EdgeSimStep == \E r \in SimReadings : steps < MaxSim /\ simulate_edge_step(r)

CloudSimStep == \E r \in SimReadings : steps < MaxSim /\ simulate_cloud_step(r)

NextSim == EdgeSimStep \/ CloudSimStep

SpecSim == (\E d \in {EdgeClass, CloudOnly} : InitWith(d)) /\ [][NextSim]_vars

-----------------------------------------------------------------------------
(* SpecPlant: the edge loop with its actuators and cloud server, while the   *)
(* actuators are also activated, switched off and queried from outside        *)

MaxPlant == 4

PlantReadings ==
    { FullReading(1, 3, 500000, 35000), FullReading(1, 3, 600000, 35000),
      FullReading(2, 3, 500000, 15000) }

PlantReading == \E r \in PlantReadings : steps < MaxPlant /\ simulate_edge_step(r)

PlantActivate ==
    \E reason \in Reasons : steps < MaxPlant /\ ActuatorActivate(1, reason, "INFO")

PlantDeactivate == \E i \in {1, 2} : steps < MaxPlant /\ ActuatorDeactivate(i)

PlantStatus == steps < MaxPlant /\ actuator_get_status(1)

PlantReceive == steps < MaxPlant /\ receive_message([has_anomaly |-> FALSE])

NextPlant ==
    PlantReading \/ PlantActivate \/ PlantDeactivate \/ PlantStatus \/ PlantReceive

SpecPlant == InitWith(EdgeClass) /\ [][NextPlant]_vars

-----------------------------------------------------------------------------
(* SpecServer: CloudServer receiving messages while a caller reads its        *)
(* counters and its recent messages and writes into what it was handed        *)

MaxServer == 4

ServerMessages ==
    { [has_anomaly |-> TRUE, anomalies |-> <<Sev("CRITICAL"), Sev("WARNING")>>],
      [has_anomaly |-> TRUE, anomalies |-> <<Sev("WARNING")>>],
      [has_anomaly |-> FALSE] }

Counts == {0, 1, 2}

ServerReceive == \E m \in ServerMessages : steps < MaxServer /\ receive_message(m)

ServerGetStatistics == steps < MaxServer /\ get_statistics

ServerGetRecent == \E count \in Counts : steps < MaxServer /\ get_recent_messages(count)

ServerCallerModifies == steps < MaxServer /\ caller_modifies

NextServer ==
    ServerReceive \/ ServerGetStatistics \/ ServerGetRecent \/ ServerCallerModifies

SpecServer == InitWith(EdgeClass) /\ [][NextServer]_vars

-----------------------------------------------------------------------------
(* SpecPlatform: CloudPlatform receiving alerts, summaries and telemetry      *)
(* while a caller reads its counters and its dashboard and writes into what   *)
(* it was handed                                                              *)

MaxPlatform == 4

Alert(node_id, timestamp, severity) ==
    [ node_id    |-> node_id,
      timestamp  |-> timestamp,
      cycle      |-> 3,
      alert_type |-> "ANOMALY",
      anomalies  |-> << [ type |-> "low_health", sensor |-> "health",
                          value |-> 15000, threshold |-> 30000,
                          severity |-> severity ] >>,
      health     |-> 15000,
      critical   |-> severity = "CRITICAL" ]

Summary(node_id, timestamp) ==
    [ node_id      |-> node_id,
      timestamp    |-> timestamp,
      alert_type   |-> "SUMMARY",
      health       |-> 35000,
      measurements |-> T1(500000) ]

AlertPayloads ==
    { Alert(1, 1, "CRITICAL"), Alert(2, 2, "WARNING"),
      Without(Alert(1, 1, "WARNING"), "timestamp"),
      Summary(1, 2), InvalidJson }

PlatformAlert ==
    \E p \in AlertPayloads : steps < MaxPlatform /\ platform_on_message(alert_topic, p)

PlatformTelemetry == steps < MaxPlatform /\ platform_on_message(sensor_topic, Base)

PlatformGetStatistics == steps < MaxPlatform /\ platform_get_statistics

PlatformDashboard == steps < MaxPlatform /\ get_dashboard_data

PlatformCallerModifies == steps < MaxPlatform /\ caller_modifies

NextPlatform ==
    PlatformAlert \/ PlatformTelemetry \/ PlatformGetStatistics
        \/ PlatformDashboard \/ PlatformCallerModifies

SpecPlatform == InitWith(MqttClass) /\ [][NextPlatform]_vars

-----------------------------------------------------------------------------
(* SpecNodes: both edge devices over the interleaved readings of two nodes:   *)
(* node 1 moves between two temperatures more than 15% apart, node 2 is hot   *)

MaxNodes == 7

NodesReadings ==
    { Reading(1, 3, T1(77000), 35000), Reading(1, 3, T1(92001), 35000),
      Reading(2, 3, T1(600000), 35000) }

NodesEdgeCall == \E r \in NodesReadings : steps < MaxNodes /\ process_sensor_data(r)

NodesMqttDeliver == \E r \in NodesReadings : steps < MaxNodes /\ on_message(r)

NextNodes == NodesEdgeCall \/ NodesMqttDeliver

SpecNodes == Init /\ [][NextNodes]_vars

-----------------------------------------------------------------------------
(* SpecFirst: EdgeComputingDevice over the reading of test_edge_device and    *)
(* its neighbours: each temperature above or below its threshold, each        *)
(* health band                                                                *)

MaxFirst == 2

TestReading(node_id, cycle, t1, t2, health) ==
    Reading(node_id, cycle,
            << Item("temperature_1", t1), Item("temperature_2", t2),
               Item("pressure", 15800), Item("vibration", 75),
               Item("rpm", 2420000) >>,
            health)

test_reading == TestReading(1, 150, 555000, 685000, 25000)

FirstReadings ==
    { test_reading }
    \cup { TestReading(n, 151, t1, t2, health) :
              n \in {1, 2}, t1 \in {545000, 555000}, t2 \in {675000, 685000},
              health \in {15000, 25000, 35000} }

FirstCall == \E r \in FirstReadings : steps < MaxFirst /\ process_sensor_data(r)

NextFirst == FirstCall

SpecFirst == InitWith(EdgeClass) /\ [][NextFirst]_vars

-----------------------------------------------------------------------------
(* SpecSensor: sensor nodes built from a data set and read in any order,     *)
(* also after the end of their streams                                        *)

MaxSensor == 7

Row(cycle) ==
    [ cycle            |-> cycle * 1000,
      sensor_temp1     |-> 500000 + cycle * 1000,
      sensor_temp2     |-> 600000,
      sensor_pressure  |-> 14000,
      sensor_vibration |-> 50,
      sensor_rpm       |-> 2300000,
      health_indicator |-> 100000 - cycle * 1000 ]

\* engine_id -> rows, as load_sensor_data returns them
SensorData ==
    { <<  <<Row(1), Row(2), Row(3)>>, <<Row(1), Row(2)>>  >>,
      <<  << >>, <<Row(5), Row(7)>>  >>,
      <<  <<Row(2), Row(2), Row(1)>>, <<Row(4)>>  >> }

NumCycles == {None, 2}

SensorCreate ==
    \E d \in SensorData, k \in NumCycles :
        steps < MaxSensor /\ create_sensor_nodes(d, k)

SensorRead == \E n \in {1, 2} : steps < MaxSensor /\ read_sensor_data(n)

NextSensor == SensorCreate \/ SensorRead

SpecSensor == InitWith(EdgeClass) /\ [][NextSensor]_vars

-----------------------------------------------------------------------------
(* SpecFusion: readings with and without rule anomalies, each fused with a    *)
(* classifier result at, just above or below the confidence threshold, or     *)
(* with no model loaded                                                       *)

MaxFusion == 3

FusionReadings ==
    { TestReading(1, 151, t1, 675000, health) :
        t1 \in {545000, 555000}, health \in {15000, 35000} }

ClassifierResults ==
    { ClassifierResult(FALSE, 900), ClassifierResult(TRUE, 500),
      ClassifierResult(TRUE, 800), ClassifierResult(TRUE, 801), ModelUnavailable }

FusedCall ==
    \E r \in FusionReadings, cr \in ClassifierResults :
        steps < MaxFusion /\ fused_decision(r, cr)

NextFusion == FusedCall

SpecFusion == InitWith(EdgeClass) /\ [][NextFusion]_vars

-----------------------------------------------------------------------------
(* SpecCompare: main() on one data file: the edge architecture over every     *)
(* row of every engine, then the cloud baseline over the same rows.  Engine   *)
(* 1 has MaxCompare rows, each calm, hot with failing health, or with a       *)
(* vibration jolt that stays below the threshold; engine 2 has one row.       *)

MaxCompare == 5

RowKinds == {"calm", "hot", "jolt"}

CompareRow(cycle, kind) ==
    [ cycle            |-> cycle * 1000,
      sensor_temp1     |-> IF kind = "hot" THEN 600000 ELSE 500000,
      sensor_temp2     |-> 600000,
      sensor_pressure  |-> 14000,
      sensor_vibration |-> IF kind = "jolt" THEN 70 ELSE 50,
      sensor_rpm       |-> 2300000,
      health_indicator |-> IF kind = "hot" THEN 15000 ELSE 35000 ]

\* engine_id -> rows, as load_sensor_data returns them
CompareData ==
    { << [i \in 1..MaxCompare |-> CompareRow(i, kinds[i])],
         << CompareRow(1, "hot") >> >> :
        kinds \in [1..MaxCompare -> RowKinds] }

CompareCreate ==
    \E d \in CompareData :
        device = EdgeClass /\ create_sensor_nodes(d, num_cycles)

CompareEdgeTurn == edge_loop_turn

CompareCloudBegins == simulate_cloud_architecture

CompareCloudTurn == cloud_loop_turn

NextCompare ==
    CompareCreate \/ CompareEdgeTurn \/ CompareCloudBegins \/ CompareCloudTurn

SpecCompare == InitWith(EdgeClass) /\ [][NextCompare]_vars

-----------------------------------------------------------------------------
(* SpecEdgeMessages: the messages either edge variant builds for the cloud,   *)
(* from readings that are calm, due for a summary, hot, or failing            *)

MaxEdgeMessages == 3

EdgeMessagesStep ==
    \E r \in SimReadings : steps < MaxEdgeMessages /\ simulate_edge_step(r)

EdgeMessagesDeliver ==
    \E r \in SimReadings : steps < MaxEdgeMessages /\ on_message(r)

NextEdgeMessages == EdgeMessagesStep \/ EdgeMessagesDeliver

SpecEdgeMessages == Init /\ [][NextEdgeMessages]_vars

-----------------------------------------------------------------------------
(* SpecMqtt: the three MQTT components connecting to a broker that accepts    *)
(* or refuses them, and a sensor node publishing its rows while the broker    *)
(* connection is up or lost                                                   *)

MaxMqtt == 5

\* rc of on_connect: 0 accepted, 5 refused (not authorised)
ReturnCodes == {0, 5}

\* what client.publish returns: success, or 4 (paho's MQTT_ERR_NO_CONN) once
\* the client has lost its connection
PublishCodes == {MQTT_ERR_SUCCESS, 4}

MqttCreate ==
    \E d \in { <<Row(1), Row(2)>>, <<Row(3)>> }, n \in {None, 1} :
        steps < MaxMqtt /\ create_mqtt_sensors(1, d, n)

MqttConnect ==
    \E c \in Components, raises \in BOOLEAN : steps < MaxMqtt /\ connect(c, raises)

MqttOnConnect ==
    \E c \in Components, rc \in ReturnCodes :
        steps < MaxMqtt /\ on_connect_callback(c, rc)

MqttConnectReturn == \E c \in Components : steps < MaxMqtt /\ connect_return(c)

MqttReadAndPublish == \E rc \in PublishCodes : steps < MaxMqtt /\ read_and_publish(rc)

NextMqtt ==
    \/ MqttCreate
    \/ MqttConnect
    \/ MqttOnConnect
    \/ MqttConnectReturn
    \/ MqttReadAndPublish

SpecMqtt == InitWith(MqttClass) /\ [][NextMqtt]_vars

-----------------------------------------------------------------------------
(* SpecInbox: CloudPlatform receiving alerts of every alert_type, with        *)
(* CRITICAL, WARNING and INFO anomalies, telemetry, messages on a topic it    *)
(* has no handler for, and payloads that are not JSON                         *)

MaxInbox == 4

\* an ANOMALY alert as MQTTEdgeDevice.send_to_cloud builds it
InboxAlert(node_id, severities) ==
    [ node_id    |-> node_id,
      timestamp  |-> 1,
      cycle      |-> 3,
      alert_type |-> "ANOMALY",
      anomalies  |-> [ i \in 1..Len(severities) |->
                         [ type |-> "threshold_exceeded", sensor |-> "pressure",
                           value |-> 17000, threshold |-> 16000,
                           severity |-> severities[i] ] ],
      health     |-> 35000,
      critical   |-> \E i \in 1..Len(severities) : severities[i] = "CRITICAL" ]

InboxAlerts ==
    { InboxAlert(1, << "CRITICAL", "WARNING" >>), InboxAlert(2, << "WARNING" >>),
      InboxAlert(1, << "INFO" >>), Summary(1, 2),
      [InboxAlert(2, << "CRITICAL" >>) EXCEPT !.alert_type = "HEARTBEAT"],
      Without(InboxAlert(1, << "WARNING" >>), "alert_type"),
      InvalidJson }

other_topic == "iot/actuators/1/command"

InboxAlertArrives ==
    \E p \in InboxAlerts : steps < MaxInbox /\ platform_on_message(alert_topic, p)

InboxTelemetryArrives ==
    \E p \in {Base, InvalidJson} : steps < MaxInbox /\ platform_on_message(sensor_topic, p)

InboxOtherArrives == steps < MaxInbox /\ platform_on_message(other_topic, Base)

InboxStatistics == steps < MaxInbox /\ platform_get_statistics

NextInbox ==
    InboxAlertArrives \/ InboxTelemetryArrives \/ InboxOtherArrives \/ InboxStatistics

SpecInbox == InitWith(MqttClass) /\ [][NextInbox]_vars

-----------------------------------------------------------------------------
(* Properties *)

LastNode == Get(result.reading, "node_id", None)

\* samples of channel c stored for node n before the last call
PriorSamples(n, c) ==
    IF n \in DOMAIN before.sensor_history
    THEN Len(before.sensor_history[n][c])
    ELSE 0

AnomaliesOfType(anomalies, type) ==
    LET is(a) == a.type = type
    IN  SelectSeq(anomalies, is)

\* C1: every (node, channel) history buffer holds at most window_size values
\* and equals the last min(k, window_size) of the k values appended for that
\* node and channel, in insertion order.
C1_WindowHoldsLastValues ==
    /\ DOMAIN appended = DOMAIN sensor_history
    /\ \A n \in DOMAIN sensor_history : \A c \in HistoryKeys :
          LET q == sensor_history[n][c]
              a == appended[n][c]
          IN  /\ Len(q) <= window_size
              /\ q = LastN(a, Min(Len(a), window_size))

\* a buffer that has overflowed: more values were appended than it holds, and
\* the oldest appended value is gone from its head
C1_Witness ==
    \E n \in DOMAIN sensor_history :
        LET q == sensor_history[n]["temperature_1"]
            a == appended[n]["temperature_1"]
        IN  /\ Len(a) > window_size
            /\ Len(q) = window_size
            /\ Head(q) # Head(a)

\* C2 (as claimed): a rapid_change anomaly is reported for a channel only when
\* at least 5 samples of that channel were stored for the node before the
\* current reading.
C2_RapidChangeNeedsFivePrior ==
    result.status = "returned" =>
        \A i \in 1..Len(result.anomalies) :
            result.anomalies[i].type = "rapid_change" =>
                PriorSamples(LastNode, result.anomalies[i].sensor) >= 5

\* C3 (as claimed): in the MQTT edge device no node delivers 10 consecutive
\* anomaly-free readings without a SUMMARY being forwarded for it.
C3_NoNodeStaysSilent ==
    device = MqttClass => \A n \in DOMAIN quiet : quiet[n] < 10

\* C4: for every reading process_sensor_data returns for, should_alert_cloud
\* is true iff the anomaly list is non-empty or the cycle is a multiple of
\* 10; without anomalies it is false at cycles 1..9 and true at cycle 10.
C4_ForwardCadence ==
    (device = EdgeClass /\ result.status = "returned") =>
        LET r == result.reading
            quietReading == Len(result.anomalies) = 0
        IN  /\ result.should_alert_cloud <=>
                  (\/ Len(result.anomalies) > 0
                   \/ ("cycle" \in DOMAIN r /\ r.cycle % 10 = 0))
            /\ (quietReading /\ r.cycle \in 1..9) => ~result.should_alert_cloud
            /\ (quietReading /\ r.cycle = 10) => result.should_alert_cloud

\* an anomaly-free reading of cycle 10 that is forwarded, after an
\* anomaly-free reading of another cycle that was not
C4_Witness ==
    /\ device = EdgeClass
    /\ result.status = "returned"
    /\ Len(result.anomalies) = 0
    /\ result.reading.cycle = 10
    /\ result.should_alert_cloud
    /\ metrics.total_processed = 2
    /\ metrics.cloud_messages_sent = 1

FlaggedCount(storage) ==
    LET is(e) == Flagged(e.message)
    IN  Len(SelectSeq(storage, is))

\* C5: after N receive_message calls of which A carry a true has_anomaly,
\* total_messages = N, anomaly_messages = A, normal_messages = N - A, hence
\* total_messages = anomaly_messages + normal_messages.
C5_CounterConservation ==
    LET N == Len(message_storage)
        A == FlaggedCount(message_storage)
    IN  /\ statistics.total_messages = N
        /\ statistics.anomaly_messages = A
        /\ statistics.normal_messages = N - A
        /\ statistics.total_messages =
              statistics.anomaly_messages + statistics.normal_messages

\* three messages received, two of them flagged
C5_Witness ==
    /\ Len(message_storage) = 3
    /\ FlaggedCount(message_storage) = 2
    /\ statistics.normal_messages = 1

RECURSIVE SevereCarried(_, _)
\* CRITICAL or WARNING anomalies carried by the stored messages: by all of
\* them, or by the flagged ones only
SevereCarried(storage, flaggedOnly) ==
    IF storage = << >> THEN 0
    ELSE LET m == Head(storage).message
         IN  (IF flaggedOnly /\ ~Flagged(m)
              THEN 0
              ELSE CountSeverity(Carried(m), "CRITICAL")
                       + CountSeverity(Carried(m), "WARNING"))
             + SevereCarried(Tail(storage), flaggedOnly)

\* C6 (as claimed): critical_alerts + warnings equals the number of CRITICAL
\* or WARNING anomalies carried by all received events, whatever their
\* has_anomaly flag.
C6_SeverityCountsEveryEvent ==
    statistics.critical_alerts + statistics.warnings
        = SevereCarried(message_storage, FALSE)

\* C6 (amended): critical_alerts + warnings equals the number of CRITICAL or
\* WARNING anomalies carried by the received events whose has_anomaly is true.
C6_SeverityCountsFlaggedEvents ==
    statistics.critical_alerts + statistics.warnings
        = SevereCarried(message_storage, TRUE)

\* a flagged event's anomalies were counted and an unflagged event's were not
C6_Witness ==
    /\ statistics.critical_alerts >= 1
    /\ statistics.warnings >= 1
    /\ \E i \in 1..Len(message_storage) :
          LET m == message_storage[i].message
          IN  ~Flagged(m) /\ Len(Carried(m)) > 0

RECURSIVE Replay(_, _)
\* the counters after the stored messages were received one after the other
Replay(st, storage) ==
    IF storage = << >> THEN st
    ELSE Replay(ReceiveStatistics(st, Head(storage).message), Tail(storage))

\* C7 (as claimed): once every concurrent receive_message call has completed,
\* no counter update is lost: the counters are those of the same calls made
\* one after the other.
C7_NoLostUpdate ==
    (\A t \in Threads : pc[t] = "idle") =>
        statistics = Replay(Statistics0, message_storage)

\* C8 (as claimed): in the MQTT edge device every well-formed reading is
\* processed to completion, whatever was delivered before it, and its
\* anomalies, when present, are forwarded to the cloud.
C8_FaultIsolated ==
    (device = MqttClass /\ result.status # "none" /\ WellFormed(result.reading)) =>
        /\ result.status = "returned"
        /\ Len(result.anomalies) > 0 =>
              /\ Len(cloud_out) > 0
              /\ cloud_out[Len(cloud_out)] =
                    AnomalyMessage(result.reading, result.anomalies)

\* C9 (as claimed): when EdgeComputingDevice.process_sensor_data fails with a
\* KeyError (a missing key of the reading, a channel without history buffer),
\* sensor_history and metrics are what they were before the call.
C9_FailedCallChangesNothing ==
    (device = EdgeClass /\ result.status = "raised" /\ result.error = "KeyError") =>
        /\ sensor_history = before.sensor_history
        /\ metrics = before.metrics

\* C10: the detector emits exactly one low_health anomaly when health < 30 and
\* none otherwise; its severity is CRITICAL below 20 and WARNING from 20 up to
\* (not including) 30.
C10_LowHealthRule ==
    result.status = "returned" =>
        LET health == Get(result.reading, "health", 100000)
            lows == AnomaliesOfType(result.anomalies, "low_health")
        IN  IF health < 30000
            THEN /\ Len(lows) = 1
                 /\ lows[1].sensor = "health"
                 /\ lows[1].value = health
                 /\ lows[1].severity = (IF health < 20000 THEN "CRITICAL" ELSE "WARNING")
            ELSE Len(lows) = 0

\* health exactly 20: one low_health anomaly, of severity WARNING, and before
\* it a reading of health exactly 30 gave none
C10_Witness ==
    /\ result.status = "returned"
    /\ "health" \in DOMAIN result.reading
    /\ result.reading.health = 20000
    /\ AnomaliesOfType(result.anomalies, "low_health") # << >>
    /\ AnomaliesOfType(result.anomalies, "low_health")[1].severity = "WARNING"
    /\ before.sensor_history # << >>
    /\ before.sensor_history[1]["health"] = <<30000>>
    /\ metrics.anomalies_detected = 1

\* the anomalies of one type reported for one channel
AnomaliesFor(anomalies, type, sensor) ==
    LET is(a) == a.type = type /\ a.sensor = sensor
    IN  SelectSeq(anomalies, is)

\* C11: for every reading and every measurement channel with a configured
\* threshold, the detector emits exactly one threshold_exceeded anomaly of
\* severity WARNING for that channel when its value is strictly greater than
\* the threshold and none otherwise, whatever the other channels and the
\* order of the channels.
C11_ThresholdPerChannel ==
    result.status = "returned" =>
        LET ms == Get(result.reading, "measurements", << >>)
        IN  \A i \in 1..Len(ms) :
                ms[i].sensor \in DOMAIN thresholds =>
                    LET hits == AnomaliesFor(result.anomalies, "threshold_exceeded",
                                             ms[i].sensor)
                    IN  IF ms[i].value > thresholds[ms[i].sensor]
                        THEN /\ Len(hits) = 1
                             /\ hits[1].severity = "WARNING"
                             /\ hits[1].value = ms[i].value
                             /\ hits[1].threshold = thresholds[ms[i].sensor]
                        ELSE Len(hits) = 0

\* pressure listed first and exactly at its threshold, temperature_1 one
\* thousandth above its own: one anomaly, for temperature_1
C11_Witness ==
    /\ result.status = "returned"
    /\ "measurements" \in DOMAIN result.reading
    /\ result.reading.measurements =
          << Item("pressure", 16000), Item("temperature_1", 550001) >>
    /\ Len(result.anomalies) = 1
    /\ result.anomalies[1].type = "threshold_exceeded"
    /\ result.anomalies[1].sensor = "temperature_1"

\* the node's history of channel c as the last call left it
NodeHistory(c) ==
    IF LastNode \in DOMAIN sensor_history THEN sensor_history[LastNode][c] ELSE << >>

\* the rapid-change check averages the 5 most recent samples of channel c
AveragesFive(c) == c \in HistoryKeys /\ Len(NodeHistory(c)) >= 5

\* sum of the 5 most recent samples of channel c (5 times their average)
RecentSum(c) == SumSeq(LastN(NodeHistory(c), 5))

\* C12: when the average of the 5 most recent samples of a channel is 0, the
\* call raises nothing, no rapid_change anomaly is emitted for that channel,
\* and the threshold and health checks of the reading still give their
\* anomalies.
C12_ZeroAverageIsQuiet ==
    (result.status # "none" /\ WellFormed(result.reading)) =>
        LET ms == result.reading.measurements
        IN  \A i \in 1..Len(ms) :
                (AveragesFive(ms[i].sensor) /\ RecentSum(ms[i].sensor) = 0) =>
                    /\ result.status = "returned"
                    /\ AnomaliesFor(result.anomalies, "rapid_change", ms[i].sensor) = << >>
                    /\ AnomaliesOfType(result.anomalies, "threshold_exceeded")
                          = ThresholdAnomalies(ms)
                    /\ AnomaliesOfType(result.anomalies, "low_health")
                          = HealthAnomalies(result.reading.health)

\* a hot temperature and a low health beside a vibration channel whose 5
\* most recent samples are not all 0 and cancel out: both anomalies are
\* reported, and nothing else
C12_Witness ==
    /\ result.status = "returned"
    /\ WellFormed(result.reading)
    /\ AveragesFive("vibration")
    /\ RecentSum("vibration") = 0
    /\ \E j \in 1..5 : LastN(NodeHistory("vibration"), 5)[j] # 0
    /\ Len(result.anomalies) = 2
    /\ result.anomalies[1].type = "threshold_exceeded"
    /\ result.anomalies[2].type = "low_health"

\* |value - avg| / avg * 100 > 15  for avg = sum / 5, sum # 0: both sides
\* multiplied by sum, which turns the comparison round when sum is negative
ChangeAboveFifteen(value, sum) ==
    IF sum > 0
    THEN Abs(5 * value - sum) * 100 > 15 * sum
    ELSE Abs(5 * value - sum) * 100 < 15 * sum

\* C13: when the rapid-change check is evaluated for a channel whose 5-sample
\* average avg is not 0, it emits one rapid_change anomaly of severity
\* WARNING iff |value - avg| / avg * 100 > 15 (strictly); a change of exactly
\* 15% emits nothing and a negative average never yields one.
C13_RapidChangeAboveFifteen ==
    result.status = "returned" =>
        LET ms == Get(result.reading, "measurements", << >>)
        IN  \A i \in 1..Len(ms) :
                (AveragesFive(ms[i].sensor) /\ RecentSum(ms[i].sensor) # 0) =>
                    LET hits == AnomaliesFor(result.anomalies, "rapid_change", ms[i].sensor)
                        sum == RecentSum(ms[i].sensor)
                    IN  /\ IF ChangeAboveFifteen(ms[i].value, sum)
                           THEN /\ Len(hits) = 1
                                /\ hits[1].severity = "WARNING"
                                /\ hits[1].value = ms[i].value
                           ELSE Len(hits) = 0
                        /\ sum < 0 => Len(hits) = 0

\* four samples of 77 and then 92: the average of the five is 80 and the
\* change is exactly 15%, so nothing is reported
C13_Witness ==
    /\ result.status = "returned"
    /\ "measurements" \in DOMAIN result.reading
    /\ result.reading.measurements = T1(92000)
    /\ AveragesFive("temperature_1")
    /\ RecentSum("temperature_1") = 400000
    /\ result.anomalies = << >>

\* position of an anomaly type in the order the checks run
CheckOrder(type) ==
    CASE type = "threshold_exceeded" -> 1
      [] type = "low_health"         -> 2
      [] type = "rapid_change"       -> 3

\* C14: the three checks never suppress one another: the anomaly list of a
\* reading is the threshold anomalies (in measurement order), then the
\* low_health anomaly if any, then the rapid_change anomalies, so a reading
\* can carry a threshold_exceeded and a rapid_change for the same channel.
C14_ChecksAreIndependent ==
    (result.status = "returned" /\ LastNode \in DOMAIN sensor_history) =>
        LET ms == Get(result.reading, "measurements", << >>)
            health == Get(result.reading, "health", 100000)
            found == result.anomalies
        IN  /\ AnomaliesOfType(found, "threshold_exceeded") = ThresholdAnomalies(ms)
            /\ AnomaliesOfType(found, "low_health") = HealthAnomalies(health)
            /\ AnomaliesOfType(found, "rapid_change")
                  = RapidAnomalies(sensor_history[LastNode], ms)
            /\ \A i, j \in 1..Len(found) :
                  i < j => CheckOrder(found[i].type) <= CheckOrder(found[j].type)

\* one reading that carries a threshold_exceeded, a low_health and a
\* rapid_change anomaly, the first and the last for the same channel
C14_Witness ==
    /\ result.status = "returned"
    /\ Len(result.anomalies) = 3
    /\ result.anomalies[1].type = "threshold_exceeded"
    /\ result.anomalies[2].type = "low_health"
    /\ result.anomalies[3].type = "rapid_change"
    /\ result.anomalies[1].sensor = result.anomalies[3].sensor

\* a node the second device has served and the first has not
OtherNode == 2

OtherHistory == [EmptyHistory EXCEPT !["temperature_1"] = <<600000, 600000>>]

\* histories of a second device that agree with h on every node of h
TwinHistories(h) ==
    { [n \in D |-> IF n \in DOMAIN h THEN h[n] ELSE OtherHistory] :
        D \in { DOMAIN h, DOMAIN h \cup {OtherNode} } }

\* counters of a second device that has processed other readings
TwinMetrics ==
    { [EdgeMetrics0 EXCEPT !.total_processed = k,
                           !.processing_times = k,
                           !.cloud_messages_sent = c,
                           !.anomalies_detected = c,
                           !.actuator_commands = c] :
        k \in {0, 9, 19}, c \in {0, 1} }

\* what a second EdgeComputingDevice in state (h, m) gives for the last reading
TwinResult(h, m) == EdgeProcess(h, m, << >>, result.reading).result

\* C15: detection is deterministic: a second EdgeComputingDevice whose
\* history for the node is the same, whatever its counters, its log and its
\* other nodes, gives for the same reading the same anomaly list and the
\* same forwarding decision.
C15_DetectionIsDeterministic ==
    (device = EdgeClass /\ result.status # "none") =>
        \A h \in TwinHistories(before.sensor_history), m \in TwinMetrics :
            /\ TwinResult(h, m).status = result.status
            /\ TwinResult(h, m).anomalies = result.anomalies
            /\ TwinResult(h, m).should_alert_cloud = result.should_alert_cloud

\* a reading with a rapid_change anomaly on a device that has processed four
\* readings and forwarded one, matched by a second device with other
\* counters and one more node
C15_Witness ==
    /\ device = EdgeClass
    /\ result.status = "returned"
    /\ AnomaliesOfType(result.anomalies, "rapid_change") # << >>
    /\ before.metrics.total_processed = 4
    /\ before.metrics.cloud_messages_sent = 1
    /\ \E h \in TwinHistories(before.sensor_history), m \in TwinMetrics :
          /\ OtherNode \in DOMAIN h
          /\ m.total_processed = 9
          /\ TwinResult(h, m).anomalies = result.anomalies

\* the command the rule names for one anomaly
RuledAction(anomaly) ==
    CASE anomaly.severity = "CRITICAL" -> "EMERGENCY_SHUTDOWN"
      [] anomaly.severity = "WARNING" /\ anomaly.sensor \in TemperatureSensors
            -> "ACTIVATE_COOLING"
      [] anomaly.severity = "WARNING" /\ anomaly.sensor \notin TemperatureSensors
            -> "ALERT"

\* C16: control_actuators issues exactly one actuator command per anomaly of
\* the reading, without deduplication: EMERGENCY_SHUTDOWN for a CRITICAL
\* anomaly, ACTIVATE_COOLING for a WARNING anomaly of a temperature channel,
\* ALERT for any other WARNING anomaly; the commands and the anomaly_log
\* entries added are as many as the anomalies.  (EdgeComputingDevice counts
\* the command in actuator_commands and drops the action it computed;
\* MQTTEdgeDevice publishes the command.)
C16_OneCommandPerAnomaly ==
    result.status = "returned" =>
        LET found == result.anomalies
            k == Len(found)
            logged == Len(before.anomaly_log)
            sent == Len(before.actuator_out)
        IN  /\ Len(anomaly_log) = logged + k
            /\ \A i \in 1..k :
                  /\ anomaly_log[logged + i].anomaly = found[i]
                  /\ anomaly_log[logged + i].node_id = LastNode
            /\ device = EdgeClass =>
                  metrics.actuator_commands = before.metrics.actuator_commands + k
            /\ device = MqttClass =>
                  /\ Len(actuator_out) = sent + k
                  /\ SubSeq(actuator_out, 1, sent) = before.actuator_out
                  /\ \A i \in 1..k :
                        /\ actuator_out[sent + i].action = RuledAction(found[i])
                        /\ actuator_out[sent + i].severity = found[i].severity
                        /\ actuator_out[sent + i].reason = found[i].sensor
                        /\ actuator_out[sent + i].node_id = LastNode
                        /\ anomaly_log[logged + i].action = RuledAction(found[i])

\* an ALERT for a low health of 25, then a reading with two anomalies that
\* gets two commands: ACTIVATE_COOLING and EMERGENCY_SHUTDOWN
C16_Witness ==
    /\ device = MqttClass
    /\ result.status = "returned"
    /\ Len(result.anomalies) = 2
    /\ Len(actuator_out) = 3
    /\ actuator_out[1].action = "ALERT"
    /\ actuator_out[2].action = "ACTIVATE_COOLING"
    /\ actuator_out[3].action = "EMERGENCY_SHUTDOWN"
    /\ Len(anomaly_log) = 3

HasCritical(anomalies) ==
    \E i \in 1..Len(anomalies) : anomalies[i].severity = "CRITICAL"

\* the anomaly list of the reading the simulation loop handled last
LoopAnomalies ==
    IF device = CloudOnly
    THEN IF message_storage = << >> THEN << >>
         ELSE message_storage[Len(message_storage)].message.anomalies
    ELSE IF result.status = "returned" THEN result.anomalies ELSE << >>

\* C17: emergency dominates alert: for every reading whose anomaly list
\* contains a CRITICAL anomaly, the activation the simulation loop records on
\* the node's actuator carries severity CRITICAL, never a mere WARNING.
C17_EmergencyDominates ==
    (/\ device \in {EdgeClass, CloudOnly}
     /\ sim_status = "running"
     /\ HasCritical(LoopAnomalies))
        => /\ actuator_call.op = "activate"
           /\ actuator_call.severity = "CRITICAL"
           /\ LET a == actuators[actuator_call.actuator_id]
              IN  a.activation_log[Len(a.activation_log)].severity = "CRITICAL"

\* the last entry of the activation log of actuator i
LastLogged(i) == actuators[i].activation_log[Len(actuators[i].activation_log)]

\* C18: when a reading yields several anomalies, the reason and the severity
\* of the actuator activation logged for that reading by the edge loop are
\* those of the first anomaly in insertion order of the anomaly list.
C18_FirstAnomalyIsPrimary ==
    (/\ device = EdgeClass
     /\ sim_status = "running"
     /\ result.status = "returned"
     /\ Len(result.anomalies) > 0)
        => LET first == result.anomalies[1]
               said == EdgeMessage(first, sensor_history[LastNode])
           IN  /\ actuator_call.op = "activate"
               /\ actuator_call.actuator_id = LastNode
               /\ actuator_call.reason = said
               /\ actuator_call.severity = first.severity
               /\ LastLogged(LastNode).reason = said
               /\ LastLogged(LastNode).severity = first.severity
               /\ Len(actuators[LastNode].activation_log)
                     = Len(actuator_call.before[LastNode].activation_log) + 1

\* a reading with a WARNING threshold anomaly followed by a CRITICAL health
\* anomaly, logged on the actuator with the threshold anomaly's severity
C18_Witness ==
    /\ device = EdgeClass
    /\ sim_status = "running"
    /\ result.status = "returned"
    /\ Len(result.anomalies) = 2
    /\ result.anomalies[1].type = "threshold_exceeded"
    /\ result.anomalies[2].severity = "CRITICAL"
    /\ actuator_call.op = "activate"
    /\ actuator_call.severity = "WARNING"
    /\ actuator_call.reason.text = "threshold_exceeded"
    /\ actuators[actuator_call.actuator_id].activation_count = 2

\* the actuators other than i are as they were before the last call
OthersUntouched(i) ==
    \A j \in DOMAIN actuators \ {i} : actuators[j] = actuator_call.before[j]

\* C19: every call of IoTActuator.activate, whatever the prior state, leaves
\* state ON, increases activation_count by exactly 1 and appends exactly one
\* log entry with the given reason and severity; two activations in
\* succession on an OFF actuator give activation_count 2 and state ON.
C19_ActivateCountsEveryCall ==
    actuator_call.op = "activate" =>
        LET i == actuator_call.actuator_id
            old == actuator_call.before[i]
            new == actuators[i]
        IN  /\ new.state = "ON"
            /\ new.activation_count = old.activation_count + 1
            /\ Len(new.activation_log) = Len(old.activation_log) + 1
            /\ SubSeq(new.activation_log, 1, Len(old.activation_log))
                  = old.activation_log
            /\ LastLogged(i).reason = actuator_call.reason
            /\ LastLogged(i).severity = actuator_call.severity
            /\ new.actuator_id = old.actuator_id
            /\ new.actuator_type = old.actuator_type
            /\ OthersUntouched(i)
            /\ LET twice == activate(activate(IoTActuator(i, actuator_types[i]),
                                              actuator_call.reason,
                                              actuator_call.severity),
                                     actuator_call.reason, actuator_call.severity)
               IN  twice.activation_count = 2 /\ twice.state = "ON"

\* an actuator that was OFF is activated twice in succession: the second
\* call finds it ON and still counts
C19_Witness ==
    /\ actuator_call.op = "activate"
    /\ actuator_call.before[actuator_call.actuator_id].state = "ON"
    /\ actuator_call.before[actuator_call.actuator_id].activation_count = 1
    /\ actuators[actuator_call.actuator_id].activation_count = 2
    /\ actuators[actuator_call.actuator_id].state = "ON"
    /\ Len(actuators[actuator_call.actuator_id].activation_log) = 2

\* C20: IoTActuator.deactivate sets state to OFF when it is ON and changes
\* nothing when it is already OFF; in both cases activation_count and
\* activation_log are left unchanged, and calling it twice has the same
\* effect as calling it once.
C20_DeactivateOnlySwitchesOff ==
    actuator_call.op = "deactivate" =>
        LET i == actuator_call.actuator_id
            old == actuator_call.before[i]
            new == actuators[i]
        IN  /\ new.state = "OFF"
            /\ new = [old EXCEPT !.state = "OFF"]
            /\ old.state = "OFF" => new = old
            /\ new.activation_count = old.activation_count
            /\ new.activation_log = old.activation_log
            /\ OthersUntouched(i)
            /\ deactivate(deactivate(old)) = deactivate(old)
            /\ deactivate(new) = new

\* an actuator that was activated and is ON is switched off: its count and
\* its log stay
C20_Witness ==
    /\ actuator_call.op = "deactivate"
    /\ actuator_call.before[actuator_call.actuator_id].state = "ON"
    /\ actuators[actuator_call.actuator_id].state = "OFF"
    /\ actuators[actuator_call.actuator_id].activation_count = 2
    /\ Len(actuators[actuator_call.actuator_id].activation_log) = 2

\* C21: there is no automatic deactivation: an actuator that is ON stays ON
\* through later readings, activations, status queries and cloud messages;
\* only a call of deactivate on that actuator switches it off.
C21_NoAutomaticDeactivation ==
    [][\A i \in DOMAIN actuators :
          (actuators[i].state = "ON" /\ actuators'[i].state # "ON")
              => /\ actuator_call'.op = "deactivate"
                 /\ actuator_call'.actuator_id = i
                 /\ actuator_call'.before[i].state = "ON"]_vars

\* actuator 1, activated once, is still ON after a quiet reading of its
\* node, a cloud message and a status query
C21_Witness ==
    /\ actuators[1].state = "ON"
    /\ actuators[1].activation_count = 1
    /\ actuator_call.op = "activate"
    /\ result.status = "returned"
    /\ LastNode = 1
    /\ result.anomalies = << >>
    /\ statistics.total_messages = 1
    /\ held.op = "IoTActuator.get_status"
    /\ held.value.state = "ON"

CounterNames ==
    {"total_messages", "anomaly_messages", "normal_messages", "critical_alerts",
     "warnings"}

\* C22: each aggregator counter (total_messages, anomaly_messages,
\* normal_messages, critical_alerts, warnings) never decreases, and only
\* receive_message changes it: get_statistics and get_recent_messages leave
\* the counters and the stored messages as they were.
C22_CountersOnlyGrowOnReceive ==
    [][/\ DOMAIN statistics' = CounterNames
       /\ \A k \in CounterNames : statistics'[k] >= statistics[k]
       /\ statistics' # statistics
             => /\ Len(message_storage') = Len(message_storage) + 1
                /\ held' = held
       /\ held' # held
             => /\ statistics' = statistics
                /\ message_storage' = message_storage]_vars

\* two messages were received and counted, the caller read the counters and
\* zeroed total_messages in the dict it was handed; the server still counts 2
C22_Witness ==
    /\ held.op = "CloudServer.get_statistics"
    /\ held.modified
    /\ held.value.total_messages = 0
    /\ held.taken.total_messages = 2
    /\ statistics.total_messages = 2
    /\ statistics.critical_alerts = 1
    /\ statistics.warnings = 1
    /\ statistics.normal_messages = 1
    /\ Len(message_storage) = 2

\* C23: every read of the aggregator's counters (CloudServer.get_statistics,
\* CloudPlatform.get_statistics, the statistics of
\* CloudPlatform.get_dashboard_data) returns a copy: a caller that writes into
\* the returned value does not change the live counters, and later receives
\* do not change a value returned earlier.
C23_ReadsReturnCopies ==
    [][/\ (held'.op \in StatisticsReads /\ ~held'.modified)
             => Observed(held)' = held'.taken
       /\ (held'.op \in StatisticsReads /\ held'.modified /\ ~held.modified)
             => /\ statistics' = statistics
                /\ platform'.statistics = platform.statistics]_vars

\* C24: for every n >= 0 and every sequence of received messages,
\* get_recent_messages(n) returns exactly the last min(n, number received)
\* messages, in arrival order; n = 0 returns no message.
C24_RecentReturnsLastN ==
    held.op = "CloudServer.get_recent_messages" =>
        LET n == held.rest.count
            received == held.rest.received
            k == Min(n, received)
        IN  /\ Len(held.taken.messages) = k
            /\ held.taken.messages = SubSeq(message_storage, received - k + 1, received)
            /\ n = 0 => held.taken.messages = << >>

\* the history a device has that processed the readings of node n only
OnlyNode(h, n) == [x \in DOMAIN h \cap {n} |-> h[x]]

\* the anomaly list the device gives the last reading when its history is h
AnomaliesWith(h) ==
    IF device = EdgeClass
    THEN EdgeProcess(h, EdgeMetrics0, << >>, result.reading).result.anomalies
    ELSE MqttProcess(h, MqttMetrics0, << >>, << >>, << >>,
                     result.reading).result.anomalies

\* C25: history is partitioned by node: processing a reading of node A
\* changes only node A's history buffers and leaves every other node's
\* buffers unchanged, and the anomaly list produced for a reading of node A
\* is the same whatever readings of other nodes were processed before it.
C25_HistoryPartitionedByNode ==
    result.status = "returned" =>
        /\ DOMAIN sensor_history = DOMAIN before.sensor_history \cup {LastNode}
        /\ \A n \in DOMAIN before.sensor_history \ {LastNode} :
              sensor_history[n] = before.sensor_history[n]
        /\ result.anomalies = AnomaliesWith(OnlyNode(before.sensor_history, LastNode))

\* node 1 jumps by more than 15% after five steady readings, with hot
\* readings of node 2 processed in between
C25_Witness ==
    /\ result.status = "returned"
    /\ LastNode = 1
    /\ AnomaliesOfType(result.anomalies, "rapid_change") # << >>
    /\ 2 \in DOMAIN before.sensor_history
    /\ before.sensor_history[2]["temperature_1"] = <<600000>>
    /\ Len(before.sensor_history[1]["temperature_1"]) = 5
    /\ Len(sensor_history[1]["temperature_1"]) = 6
    /\ sensor_history[2] = before.sensor_history[2]

\* the node of the last reading had no history before it
NoPriorHistory == \A c \in HistoryKeys : PriorSamples(LastNode, c) = 0

\* the positions of the measurements above their thresholds
AboveThreshold(ms) ==
    { i \in 1..Len(ms) : /\ ms[i].sensor \in DOMAIN thresholds
                         /\ ms[i].value > thresholds[ms[i].sensor] }

\* C26: on an edge device with no prior history for the node, a reading
\* yields exactly one ThresholdExceeded per channel above its threshold, plus
\* one LowHealth if health < 30, and nothing else; the reading with
\* temperature_1 = 555, temperature_2 = 685, the other channels below their
\* thresholds and health = 25 yields exactly 3 anomalies (two
\* ThresholdExceeded, one LowHealth of severity WARNING) and
\* should_alert_cloud is true.
C26_FirstReadingRuleAnomalies ==
    (device = EdgeClass /\ result.status = "returned" /\ NoPriorHistory) =>
        LET ms == result.reading.measurements
            found == result.anomalies
            low == IF result.reading.health < 30000 THEN 1 ELSE 0
        IN  /\ Len(found) = Cardinality(AboveThreshold(ms)) + low
            /\ \A i \in AboveThreshold(ms) :
                  Len(AnomaliesFor(found, "threshold_exceeded", ms[i].sensor)) = 1
            /\ Len(AnomaliesOfType(found, "threshold_exceeded"))
                  = Cardinality(AboveThreshold(ms))
            /\ Len(AnomaliesOfType(found, "low_health")) = low
            /\ result.reading = test_reading =>
                  /\ Len(found) = 3
                  /\ found[1].type = "threshold_exceeded"
                  /\ found[1].sensor = "temperature_1"
                  /\ found[2].type = "threshold_exceeded"
                  /\ found[2].sensor = "temperature_2"
                  /\ found[3].type = "low_health"
                  /\ found[3].severity = "WARNING"
                  /\ result.should_alert_cloud

\* the reading of test_edge_device, the first of node 1 on a device that has
\* processed a reading of node 2: three anomalies
C26_Witness ==
    /\ device = EdgeClass
    /\ result.status = "returned"
    /\ result.reading = test_reading
    /\ NoPriorHistory
    /\ 2 \in DOMAIN before.sensor_history
    /\ Len(result.anomalies) = 3
    /\ result.should_alert_cloud

\* C27: the cloud-only baseline forwards everything: after every reading
\* handled by simulate_cloud_architecture, data_sent_to_cloud equals
\* total_data_points and the cloud server's total_messages equals the number
\* of readings read so far.
C27_BaselineForwardsEverything ==
    (device = CloudOnly /\ sim_status = "running") =>
        /\ cloud_metrics.total_data_points = steps
        /\ cloud_metrics.data_sent_to_cloud = cloud_metrics.total_data_points
        /\ statistics.total_messages = steps
        /\ Len(message_storage) = steps
        /\ statistics.anomaly_messages + statistics.normal_messages = steps

\* three readings handled by the baseline, with and without anomalies, all
\* three received by the cloud server
C27_Witness ==
    /\ device = CloudOnly
    /\ sim_status = "running"
    /\ steps = 3
    /\ cloud_metrics.data_sent_to_cloud = 3
    /\ statistics.total_messages = 3
    /\ statistics.normal_messages = 2
    /\ statistics.anomaly_messages = 1
    /\ cloud_metrics.anomalies_detected = 2

IsReading(x) == "none" \notin DOMAIN x

\* the readings among what a node returned, in order
ReadingsOf(returned) == SelectSeq(returned, IsReading)

StrictlyIncreasing(cycles) ==
    \A i, j \in 1..Len(cycles) : i < j => cycles[i] < cycles[j]

\* C28: a sensor node delivers the rows of its data source in order, each
\* exactly once, so the delivered cycle numbers are strictly increasing when
\* the source's are; current_cycle <= total_cycles always; and once
\* read_sensor_data has returned None it returns None on every later call
\* and delivers no further reading.
C28_RowsInOrderThenNone ==
    \A n \in DOMAIN sensor_nodes :
        LET node == sensor_nodes[n]
            got == ReadingsOf(delivered[n])
        IN  /\ node.current_cycle <= node.total_cycles
            /\ node.total_cycles = Len(node.data_source)
            /\ Len(got) = node.current_cycle
            /\ \A i \in 1..Len(got) : got[i] = SensorReading(n, node.data_source[i])
            /\ \A i, j \in 1..Len(delivered[n]) :
                  (i < j /\ ~IsReading(delivered[n][i])) => ~IsReading(delivered[n][j])
            /\ StrictlyIncreasing([i \in 1..node.total_cycles |->
                                      node.data_source[i].cycle])
                  => StrictlyIncreasing([i \in 1..Len(got) |-> got[i].cycle])

\* node 2 delivered its two rows, cycles 5 and 7, then None twice, while
\* node 1, whose source is empty, returned None at once
C28_Witness ==
    /\ DOMAIN sensor_nodes = {1, 2}
    /\ Len(delivered[2]) = 4
    /\ IsReading(delivered[2][1]) /\ delivered[2][1].cycle = 5
    /\ IsReading(delivered[2][2]) /\ delivered[2][2].cycle = 7
    /\ delivered[2][3] = NoReading
    /\ delivered[2][4] = NoReading
    /\ sensor_nodes[2].current_cycle = 2
    /\ delivered[1] = <<NoReading>>

\* C29: when the classifier flags a reading as anomalous, the edge decision
\* contains exactly one ClassifierFlag anomaly, appended after all rule-based
\* anomalies, with severity CRITICAL if the classifier confidence is above
\* 0.8 and WARNING otherwise; when the classifier does not flag the reading,
\* the decision contains only the rule-based anomalies.
C29_ClassifierFlagAppendedLast ==
    decision.status = "fused" =>
        LET rules == result.anomalies
            all == decision.anomalies
            flags == AnomaliesOfType(all, "classifier_flag")
            cr == decision.classifier
        IN  IF cr.available /\ cr.is_anomalous
            THEN /\ Len(all) = Len(rules) + 1
                 /\ SubSeq(all, 1, Len(rules)) = rules
                 /\ Len(flags) = 1
                 /\ all[Len(all)].type = "classifier_flag"
                 /\ all[Len(all)].severity =
                       (IF cr.confidence > 800 THEN "CRITICAL" ELSE "WARNING")
            ELSE /\ all = rules
                 /\ flags = << >>

\* a hot reading with low health, flagged with confidence 0.801: two rule
\* anomalies, then the CRITICAL classifier flag
C29_Witness ==
    /\ decision.status = "fused"
    /\ decision.classifier = ClassifierResult(TRUE, 801)
    /\ Len(result.anomalies) = 2
    /\ Len(decision.anomalies) = 3
    /\ decision.anomalies[1].type = "threshold_exceeded"
    /\ decision.anomalies[2].type = "low_health"
    /\ decision.anomalies[3].type = "classifier_flag"
    /\ decision.anomalies[3].severity = "CRITICAL"

\* C30: in the edge architecture run every anomaly detected at the edge is
\* counted exactly once at the cloud: after any number of readings handled by
\* simulate_edge_architecture, the cloud server's critical_alerts + warnings
\* equals the edge device's anomalies_detected, and its anomaly_messages
\* equals the number of readings that yielded at least one anomaly.
C30_EdgeAnomaliesCountedOnceAtCloud ==
    (device = EdgeClass /\ sim_status = "running") =>
        /\ statistics.critical_alerts + statistics.warnings
              = metrics.anomalies_detected
        /\ metrics.anomalies_detected = edge_metrics.anomalies_detected
        /\ statistics.anomaly_messages = edge_metrics.actuator_activations
        /\ statistics.anomaly_messages = FlaggedCount(message_storage)
        /\ statistics.total_messages = edge_metrics.data_sent_to_cloud

\* three readings: one quiet and not forwarded, one forwarded as heartbeat,
\* one with a WARNING and a CRITICAL anomaly
C30_Witness ==
    /\ device = EdgeClass
    /\ sim_status = "running"
    /\ edge_metrics.total_data_points = 3
    /\ edge_metrics.data_sent_to_cloud = 2
    /\ statistics.normal_messages = 1
    /\ statistics.anomaly_messages = 1
    /\ statistics.critical_alerts = 1
    /\ statistics.warnings = 1
    /\ metrics.anomalies_detected = 2

-----------------------------------------------------------------------------
(* C31 *)

\* the counter of readings the edge object in use has handled
TotalHandled(m) ==
    IF device = EdgeClass THEN m.total_processed ELSE m.total_received

\* C31: each processed reading causes at most one message to the cloud, in
\* both edge variants: cloud_messages_sent never exceeds total_processed
\* (EdgeComputingDevice) or total_received (MQTTEdgeDevice), one call adds at
\* most one to it, the MQTT variant publishes exactly the messages it counts,
\* and the reported data reduction stays between 0 and 100 percent
C31_AtMostOneMessagePerReading ==
    /\ metrics.cloud_messages_sent <= TotalHandled(metrics)
    /\ metrics.cloud_messages_sent - before.metrics.cloud_messages_sent \in {0, 1}
    /\ metrics.cloud_messages_sent > before.metrics.cloud_messages_sent
          => TotalHandled(metrics) = TotalHandled(before.metrics) + 1
    /\ device = MqttClass => Len(cloud_out) = metrics.cloud_messages_sent
    /\ data_reduction_pct(metrics.cloud_messages_sent, TotalHandled(metrics))
          \in 0..100000

\* an EdgeComputingDevice that sent a message for some of its readings and
\* none for others, the last one an anomalous reading that was forwarded
C31_Witness ==
    /\ device = EdgeClass
    /\ metrics.total_processed = 3
    /\ metrics.cloud_messages_sent = 2
    /\ result.status = "returned"
    /\ Len(result.anomalies) > 0
    /\ result.should_alert_cloud
    /\ data_reduction_pct(metrics.cloud_messages_sent, metrics.total_processed) = 33333

-----------------------------------------------------------------------------
(* C32, C33 *)

\* what the cloud baseline keeps of an anomaly
CloudView(a) == CloudAnomaly(a.sensor, a.value, a.severity)

IsRapidChange(a) == a.type = "rapid_change"

IsRuleAnomaly(a) == a.type \in {"threshold_exceeded", "low_health"}

\* C32: for every reading the edge handled, the anomaly list the cloud
\* baseline computes for it has the same channels, values and severities, in
\* the same order, as the threshold and low-health anomalies of the edge
\* detector; whatever else the edge list holds is a rapid-change anomaly, and
\* those come after the others
C32_CloudMatchesEdgeRules ==
    (device \in {EdgeClass, CloudOnly} /\ result.status = "returned") =>
        LET edge == result.anomalies
            rules == SelectSeq(edge, IsRuleAnomaly)
            cloud == detect_anomaly_in_cloud(result.reading)
        IN  /\ Len(cloud) = Len(rules)
            /\ \A i \in 1..Len(rules) : cloud[i] = CloudView(rules[i])
            /\ \A i \in 1..Len(edge) :
                  /\ IsRuleAnomaly(edge[i]) \/ IsRapidChange(edge[i])
                  /\ i <= Len(rules) => IsRuleAnomaly(edge[i])

\* a row of the data file on which the edge found a threshold, a low-health
\* and a rapid-change anomaly
C32_Witness ==
    /\ sensor_nodes # << >>
    /\ result.status = "returned"
    /\ \E i \in 1..Len(result.anomalies) : result.anomalies[i].type = "threshold_exceeded"
    /\ \E i \in 1..Len(result.anomalies) : result.anomalies[i].type = "low_health"
    /\ \E i \in 1..Len(result.anomalies) : IsRapidChange(result.anomalies[i])
    /\ Len(detect_anomaly_in_cloud(result.reading)) = 2

\* both runs of main() are over: the cloud baseline has read every row too
BothRunsDone ==
    /\ device = CloudOnly
    /\ sim_status = "running"
    /\ Exhausted(sensor_nodes)

\* C33: over the same rows, the edge architecture and the cloud baseline
\* report the same total of detected anomalies
C33_SameAnomalyTotal ==
    BothRunsDone =>
        edge_metrics.anomalies_detected = cloud_metrics.anomalies_detected

-----------------------------------------------------------------------------
(* C34 *)

AnyCritical(anomalies) == \E i \in 1..Len(anomalies) : IsCritical(anomalies[i])

-----------------------------------------------------------------------------
(* C35 *)

\* the last call or callback was `op` on component c
LastOn(op, c) == last_callback.op = op /\ last_callback.component = c

-----------------------------------------------------------------------------
(* C38 *)

TrueReturns(returns) ==
    LET yes(b) == b
    IN  Len(SelectSeq(returns, yes))

\* C38: read_and_publish consumes a reading only when it delivers it:
\* whenever it returns False current_cycle is unchanged, the number of True
\* returns equals current_cycle, and every row read was published
C38_FalseReturnConsumesNothing ==
    /\ (last_callback.op = "read_and_publish" /\ last_callback.returned = "False") =>
          publisher.current_cycle = last_callback.current_cycle
    /\ TrueReturns(publisher.returns) = publisher.current_cycle
    /\ Len(publisher.published) = publisher.current_cycle

-----------------------------------------------------------------------------
(* C36 *)

\* the last 5 entries of a list, fewer if it has fewer
LastFive(alerts) == SubSeq(alerts, Max(1, Len(alerts) - 4), Len(alerts))

Reversed(s) == [i \in 1..Len(s) |-> s[Len(s) + 1 - i]]

\* the step is a get_dashboard_data call that returned
DashboardReturned ==
    /\ held' # held
    /\ held'.op = "CloudPlatform.get_dashboard_data"
    /\ ~held'.modified

\* C36: the recent alerts get_dashboard_data reports are the last 5 alerts
\* received (fewer if fewer were received), selected and ordered by arrival
\* (oldest first or newest first), whatever timestamps the alerts carry
C36_RecentAlertsByArrival ==
    [][ DashboardReturned =>
            \/ held'.rest.recent_alerts = LastFive(platform.alerts)
            \/ held'.rest.recent_alerts = Reversed(LastFive(platform.alerts)) ]_vars

-----------------------------------------------------------------------------
(* C37 *)

\* C37: in every reachable state of an actuator activation_count equals the
\* length of activation_log, state ON implies activation_count >= 1, and
\* get_status reports activation_count equal to total_activations
C37_CountEqualsLogLength ==
    /\ \A i \in DOMAIN actuators :
          /\ actuators[i].activation_count = Len(actuators[i].activation_log)
          /\ actuators[i].state = "ON" => actuators[i].activation_count >= 1
    /\ held.op = "IoTActuator.get_status" =>
          /\ held.value.activation_count = held.value.total_activations
          /\ held.value.state = "ON" => held.value.activation_count >= 1

\* get_status of an actuator that is ON after it was activated twice
C37_Witness ==
    /\ held.op = "IoTActuator.get_status"
    /\ held.value.state = "ON"
    /\ held.value.activation_count = 2
    /\ held.value.total_activations = 2
    /\ actuators[held.value.actuator_id].activation_count = 2

-----------------------------------------------------------------------------
(* C39 *)

\* json.loads accepted the payload
Parsed(e) == ~HasKeys(e.payload, {"invalid_json"})

IsAnomalyAlert(e) ==
    /\ Parsed(e)
    /\ IsAlertTopic(e.topic)
    /\ GetText(e.payload, "alert_type") = "ANOMALY"

\* the message is one on_message has a handler and a counter for
IsTyped(e) ==
    \/ IsSensorTopic(e.topic)
    \/ /\ IsAlertTopic(e.topic)
       /\ GetText(e.payload, "alert_type") \in {"ANOMALY", "SUMMARY"}

\* CRITICAL or WARNING anomalies carried by the ANOMALY alerts among msgs
RECURSIVE SevereCarriedBy(_)
SevereCarriedBy(msgs) ==
    IF msgs = << >> THEN 0
    ELSE LET e == Head(msgs)
             here == IF IsAnomalyAlert(e)
                     THEN CountSeverity(Carried(e.payload), "CRITICAL")
                              + CountSeverity(Carried(e.payload), "WARNING")
                     ELSE 0
         IN  here + SevereCarriedBy(Tail(msgs))

\* C39: after any sequence of received messages alert_messages +
\* summary_messages + telemetry_messages <= total_messages, with equality
\* when every message arrived on the alerts or sensors topic and every alert
\* carried alert_type ANOMALY or SUMMARY; critical_alerts + warnings equals
\* the number of CRITICAL or WARNING anomalies carried by the ANOMALY alerts
\* received
C39_PlatformCountersConsistent ==
    LET st == platform.statistics
        typed == st.alert_messages + st.summary_messages + st.telemetry_messages
        parsed == SelectSeq(inbox, Parsed)
    IN  /\ typed <= st.total_messages
        /\ st.total_messages = Len(parsed)
        /\ typed = Len(SelectSeq(parsed, IsTyped))
        /\ (\A i \in 1..Len(parsed) : IsTyped(parsed[i])) => typed = st.total_messages
        /\ st.critical_alerts + st.warnings = SevereCarriedBy(inbox)
        /\ st.alert_messages = Len(SelectSeq(inbox, IsAnomalyAlert))

\* a platform that received an alert with a CRITICAL and a WARNING anomaly,
\* one with an INFO anomaly, raw telemetry and a message it has no counter
\* for
C39_Witness ==
    /\ Len(inbox) = 4
    /\ platform.statistics.total_messages = 4
    /\ platform.statistics.alert_messages = 2
    /\ platform.statistics.telemetry_messages = 1
    /\ platform.statistics.summary_messages = 0
    /\ platform.statistics.critical_alerts = 1
    /\ platform.statistics.warnings = 1
    /\ \E i \in 1..Len(platform.alerts) :
          \E j \in 1..Len(platform.alerts[i].anomalies) :
              platform.alerts[i].anomalies[j].severity = "INFO"

====
